---- MODULE Spec2Model ----
(***************************************************************************)
(* xCDN-C: lexer, recursive-descent parser, document model and serializer. *)
(*                                                                         *)
(* A byte is a one-character string and a text is a sequence of bytes.     *)
(* Every heap block the library allocates has a pointer (a positive        *)
(* number); the heap records which blocks are live and how many invalid    *)
(* frees happened, so leaks and double frees are observable.               *)
(***************************************************************************)
EXTENDS Integers, Sequences, FiniteSets, TLC

\* K applied to v: the result of a call bound to a name, as a C local holds it.
With(v, K(_)) == K(v)

(* ------------------------------------------------------------------ *)
(* Bytes                                                              *)
(* ------------------------------------------------------------------ *)

Upper == {"A","B","C","D","E","F","G","H","I","J","K","L","M",
          "N","O","P","Q","R","S","T","U","V","W","X","Y","Z"}

Lower == {"a","b","c","d","e","f","g","h","i","j","k","l","m",
          "n","o","p","q","r","s","t","u","v","w","x","y","z"}

DigitSeq == <<"0","1","2","3","4","5","6","7","8","9">>

Digit == {DigitSeq[i] : i \in 1..10}

HexDigit == Digit \cup {"a","b","c","d","e","f","A","B","C","D","E","F"}

\* What lex_peek and lex_bump return at the end of the input (-1 in the code).
NoByte == "<-1>"

\* The value of a decimal digit.
DigitVal(c) == (CHOOSE i \in 1..10 : DigitSeq[i] = c) - 1

(* ------------------------------------------------------------------ *)
(* Heap                                                               *)
(* ------------------------------------------------------------------ *)

NULL == [ptr |-> 0]

IsNull(x) == x.ptr = 0

\* A fresh heap: nothing allocated.
heap_init == [next |-> 1, live |-> {}, bad |-> 0]

\* malloc/calloc: the block handed out is h.next.
heap_alloc(h) == [h EXCEPT !.next = h.next + 1, !.live = h.live \cup {h.next}]

\* free(p): free(NULL) does nothing; freeing a block that is not live is counted.
heap_free(h, p) ==
    IF p = 0 THEN h
    ELSE IF p \in h.live THEN [h EXCEPT !.live = h.live \ {p}]
    ELSE [h EXCEPT !.bad = h.bad + 1]

(* ------------------------------------------------------------------ *)
(* Diagnostics                                                        *)
(* ------------------------------------------------------------------ *)

xcdn_span_new(offset, line, column) ==
    [offset |-> offset, line |-> line, column |-> column]

\* A span of a zeroed structure (memset 0).
span_zero == xcdn_span_new(0, 0, 0)

xcdn_error_none == [kind |-> "XCDN_ERR_NONE", span |-> span_zero]

xcdn_error_new(kind, span) == [kind |-> kind, span |-> span]

xcdn_error_is_set(err) == err.kind # "XCDN_ERR_NONE"

(* ------------------------------------------------------------------ *)
(* Lexer                                                              *)
(* ------------------------------------------------------------------ *)

is_ident_start(b) == b \in Upper \/ b \in Lower \/ b = "_"

is_ident_part(b) == is_ident_start(b) \/ b \in Digit \/ b = "-"

xcdn_lexer_init == [idx |-> 0, line |-> 1, col |-> 1]

lex_peek(src, lex) ==
    IF lex.idx >= Len(src) THEN NoByte ELSE src[lex.idx + 1]

lex_peek_at(src, lex, offset) ==
    IF lex.idx + offset >= Len(src) THEN NoByte ELSE src[lex.idx + offset + 1]

\* lex_bump that stays on the line at a line feed.
lex_bump_same_line(src, lex) ==
    IF lex.idx >= Len(src) THEN lex
    ELSE IF src[lex.idx + 1] = "\n"
         THEN [idx |-> lex.idx + 1, line |-> lex.line, col |-> 1]
         ELSE [idx |-> lex.idx + 1, line |-> lex.line, col |-> lex.col + 1]

\* lex_bump that does not reset the column at a line feed.
lex_bump_no_reset(src, lex) ==
    IF lex.idx >= Len(src) THEN lex
    ELSE IF src[lex.idx + 1] = "\n"
         THEN [idx |-> lex.idx + 1, line |-> lex.line + 1, col |-> lex.col + 1]
         ELSE [idx |-> lex.idx + 1, line |-> lex.line, col |-> lex.col + 1]

\* lex_bump without the test of the end of the text.
lex_bump_past_end(src, lex) ==
    IF lex.idx < Len(src) /\ src[lex.idx + 1] = "\n"
    THEN [idx |-> lex.idx + 1, line |-> lex.line + 1, col |-> 1]
    ELSE [idx |-> lex.idx + 1, line |-> lex.line, col |-> lex.col + 1]

\* The cursor after lex_bump; the byte it returns is lex_peek before the call.
lex_bump(src, lex) ==
    IF lex.idx >= Len(src) THEN lex
    ELSE IF src[lex.idx + 1] = "\n"
         THEN [idx |-> lex.idx + 1, line |-> lex.line + 1, col |-> 1]
         ELSE [idx |-> lex.idx + 1, line |-> lex.line, col |-> lex.col + 1]

lex_span(lex) == xcdn_span_new(lex.idx, lex.line, lex.col)

RECURSIVE skip_ws_no_cr(_, _)
\* The whitespace loop without the carriage return.
skip_ws_no_cr(src, lex) ==
    IF lex.idx < Len(src) /\ src[lex.idx + 1] \in {" ", "\t", "\n"}
    THEN skip_ws_no_cr(src, lex_bump(src, lex))
    ELSE lex

RECURSIVE skip_ws(_, _)
\* The inner while loop of skip_ws_and_comments: spaces, tabs, CR, LF.
skip_ws(src, lex) ==
    IF lex.idx < Len(src) /\ src[lex.idx + 1] \in {" ", "\t", "\r", "\n"}
    THEN skip_ws(src, lex_bump(src, lex))
    ELSE lex

RECURSIVE skip_line_comment(_, _)
\* while (idx < src_len) { c = lex_bump(); if (c == '\n') break; }
skip_line_comment(src, lex) ==
    IF lex.idx < Len(src)
    THEN IF lex_peek(src, lex) = "\n" THEN lex_bump(src, lex)
         ELSE skip_line_comment(src, lex_bump(src, lex))
    ELSE lex

RECURSIVE skip_block_comment(_, _)
\* while (idx < src_len) { c = lex_bump(); if (c == '*' && peek == '/') { bump; break; } }
skip_block_comment(src, lex) ==
    IF lex.idx < Len(src)
    THEN LET bumped(c, l1) ==
                 IF c = "*" /\ lex_peek(src, l1) = "/" THEN lex_bump(src, l1)
                 ELSE skip_block_comment(src, l1)
         IN bumped(lex_peek(src, lex), lex_bump(src, lex))
    ELSE lex

RECURSIVE skip_ws_and_comments(_, _)
skip_ws_and_comments(src, lex) ==
    LET at(l1) ==
            IF l1.idx >= Len(src) THEN l1
            ELSE IF src[l1.idx + 1] = "/" /\ l1.idx + 1 < Len(src)
                 THEN IF src[l1.idx + 2] = "/"
                      THEN skip_ws_and_comments(src,
                               skip_line_comment(src, lex_bump(src, lex_bump(src, l1))))
                      ELSE IF src[l1.idx + 2] = "*"
                      THEN skip_ws_and_comments(src,
                               skip_block_comment(src, lex_bump(src, lex_bump(src, l1))))
                      ELSE l1
                 ELSE l1
    IN at(skip_ws(src, lex))

(* ---- strings ---- *)

\* A heap string: its block and its bytes (the terminating NUL is left out).
mk_str(p, s) == [ptr |-> p, s |-> s]

RECURSIVE read_triple_body(_, _, _)
\* The for (;;) loop of read_string's triple branch, after the opening quotes;
\* kind is the error the loop ends with (XCDN_ERR_NONE: the string is closed).
read_triple_body(src, lex, sb) ==
    IF lex_peek(src, lex) = "\"" /\ lex_peek_at(src, lex, 1) = "\""
       /\ lex_peek_at(src, lex, 2) = "\""
    THEN [lex |-> lex_bump(src, lex_bump(src, lex_bump(src, lex))), sb |-> sb,
          kind |-> "XCDN_ERR_NONE"]
    ELSE IF lex_peek(src, lex) = NoByte
         THEN [lex |-> lex, sb |-> sb, kind |-> "XCDN_ERR_EOF"]
         ELSE read_triple_body(src, lex_bump(src, lex), Append(sb, lex_peek(src, lex)))

RECURSIVE read_u_escape_any(_, _, _, _)
\* The loop without the isxdigit test: any four bytes are taken.
read_u_escape_any(src, lex, sb, i) ==
    IF i >= 4 THEN [lex |-> lex, sb |-> sb, kind |-> "XCDN_ERR_NONE"]
    ELSE LET bumped(h, l1) ==
                 IF h = NoByte
                 THEN [lex |-> l1, sb |-> sb, kind |-> "XCDN_ERR_INVALID_ESCAPE"]
                 ELSE read_u_escape_any(src, l1, Append(sb, h), i + 1)
         IN bumped(lex_peek(src, lex), lex_bump(src, lex))

RECURSIVE read_u_escape(_, _, _, _)
\* for (i = 0; i < 4; i++) { h = lex_bump(); if (h < 0 || !isxdigit(h)) fail; push(h); }
read_u_escape(src, lex, sb, i) ==
    IF i >= 4 THEN [lex |-> lex, sb |-> sb, kind |-> "XCDN_ERR_NONE"]
    ELSE LET bumped(h, l1) ==
                 IF h = NoByte \/ h \notin HexDigit
                 THEN [lex |-> l1, sb |-> sb, kind |-> "XCDN_ERR_INVALID_ESCAPE"]
                 ELSE read_u_escape(src, l1, Append(sb, h), i + 1)
         IN bumped(lex_peek(src, lex), lex_bump(src, lex))

RECURSIVE read_quoted_body(_, _, _)
\* The for (;;) loop of read_string's ordinary branch, after the opening quote.
read_quoted_body(src, lex, sb) ==
    LET hex(u) ==
            IF u.kind = "XCDN_ERR_NONE" THEN read_quoted_body(src, u.lex, u.sb) ELSE u
        escape(e, l2) ==
            IF e = NoByte
            THEN [lex |-> l2, sb |-> sb, kind |-> "XCDN_ERR_INVALID_ESCAPE"]
            ELSE IF e = "\"" THEN read_quoted_body(src, l2, Append(sb, "\""))
            ELSE IF e = "\\" THEN read_quoted_body(src, l2, Append(sb, "\\"))
            ELSE IF e \in {"/", "b", "f", "n", "r", "t"}
            THEN read_quoted_body(src, l2, sb \o <<"\\", e>>)
            ELSE IF e = "u" THEN hex(read_u_escape(src, l2, sb \o <<"\\", "u">>, 0))
            ELSE [lex |-> l2, sb |-> sb, kind |-> "XCDN_ERR_INVALID_ESCAPE"]
        bumped(b, l1) ==
            IF b = NoByte THEN [lex |-> l1, sb |-> sb, kind |-> "XCDN_ERR_EOF"]
            ELSE IF b = "\"" THEN [lex |-> l1, sb |-> sb, kind |-> "XCDN_ERR_NONE"]
            ELSE IF b = "\\" THEN escape(lex_peek(src, l1), lex_bump(src, l1))
            ELSE read_quoted_body(src, l1, Append(sb, b))
    IN bumped(lex_peek(src, lex), lex_bump(src, lex))

\* read_string: the string buffer is freed on every error path and handed to the
\* caller (one live block) on success; errors carry the span of the opening quote.
read_string(src, lex, triple, h) ==
    LET body(r) ==
            IF r.kind = "XCDN_ERR_NONE"
            THEN [lex |-> r.lex, h |-> heap_alloc(h), str |-> mk_str(h.next, r.sb),
                  err |-> xcdn_error_none]
            ELSE [lex |-> r.lex, h |-> h, str |-> NULL,
                  err |-> xcdn_error_new(r.kind, lex_span(lex))]
    IN body(IF triple
            THEN read_triple_body(src,
                     lex_bump(src, lex_bump(src, lex_bump(src, lex))), <<>>)
            ELSE IF lex_peek(src, lex) # "\""
            THEN [lex |-> lex_bump(src, lex), sb |-> <<>>, kind |-> "XCDN_ERR_EXPECTED"]
            ELSE read_quoted_body(src, lex_bump(src, lex), <<>>))

(* ---- identifiers ---- *)

RECURSIVE ident_end(_, _)
\* while (idx < src_len && is_ident_part(src[idx])) lex_bump();
ident_end(src, lex) ==
    IF lex.idx < Len(src) /\ is_ident_part(src[lex.idx + 1])
    THEN ident_end(src, lex_bump(src, lex))
    ELSE lex

read_ident(src, lex, h) ==
    LET upto(l1) ==
            [lex |-> l1, h |-> heap_alloc(h),
             str |-> mk_str(h.next, SubSeq(src, lex.idx + 1, l1.idx))]
    IN upto(ident_end(src, lex_bump(src, lex)))

(* ---- numbers ---- *)

\* sizeof(tmp) in read_number.
TmpSize == 128

\* LLONG_MAX and -LLONG_MIN, as digits.
LLongMaxDigits == <<"9","2","2","3","3","7","2","0","3","6","8","5","4","7","7","5","8","0","7">>

LLongMinDigits == <<"9","2","2","3","3","7","2","0","3","6","8","5","4","7","7","5","8","0","8">>

\* The digits of the largest decimal that still rounds to DBL_MAX (x 10^309) and
\* of DBL_MIN (x 10^-307), to 17 places.
DblMaxDigits == <<"1","7","9","7","6","9","3","1","3","4","8","6","2","3","1","5","8">>

DblMinDigits == <<"2","2","2","5","0","7","3","8","5","8","5","0","7","2","0","1","4">>

\* The decimal exponent above which strtod overflows, and the one below which
\* the result is subnormal, for a value 0.d1d2... x 10^exp.
DblMaxExp10 == 309

DblMinExp10 == -307

RECURSIVE StripLeadingZeros(_)
StripLeadingZeros(ds) ==
    IF ds # <<>> /\ Head(ds) = "0" THEN StripLeadingZeros(Tail(ds)) ELSE ds

RECURSIVE StripTrailingZeros(_)
StripTrailingZeros(ds) ==
    IF ds # <<>> /\ ds[Len(ds)] = "0"
    THEN StripTrailingZeros(SubSeq(ds, 1, Len(ds) - 1)) ELSE ds

RECURSIVE FracLess(_, _)
\* 0.a < 0.b for digit sequences a and b.
FracLess(a, b) ==
    IF b = <<>> THEN FALSE
    ELSE IF a = <<>> THEN StripTrailingZeros(b) # <<>>
    ELSE IF Head(a) # Head(b) THEN DigitVal(Head(a)) < DigitVal(Head(b))
    ELSE FracLess(Tail(a), Tail(b))

\* a < b for natural numbers written without leading zeros.
MagLess(a, b) ==
    \/ Len(a) < Len(b)
    \/ Len(a) = Len(b) /\ FracLess(a, b)

RECURSIVE DigitsToNat(_)
\* The value of a short digit sequence.
DigitsToNat(ds) ==
    IF ds = <<>> THEN 0
    ELSE 10 * DigitsToNat(SubSeq(ds, 1, Len(ds) - 1)) + DigitVal(ds[Len(ds)])

\* The largest exponent magnitude kept exactly; a longer exponent saturates
\* (it is far out of a double's range either way).
ExpSaturate == 99999

ExpToNat(ds) ==
    LET value(d) == IF Len(d) > 5 THEN ExpSaturate ELSE DigitsToNat(d)
    IN value(StripLeadingZeros(ds))

RECURSIVE digits_end(_, _)
\* The index after the run of digits that starts at index i of t.
digits_end(t, i) ==
    IF i <= Len(t) /\ t[i] \in Digit THEN digits_end(t, i + 1) ELSE i

\* strtoll(tmp, &endp, 10) on [sign]digits: the value as sign and magnitude.
\* conv = FALSE: endp == tmp. erange: errno == ERANGE.
strtoll(tmp) ==
    LET signed == tmp # <<>> /\ tmp[1] \in {"+", "-"}
        neg == signed /\ tmp[1] = "-"
        from == IF signed THEN 2 ELSE 1
        value(mag, conv) ==
            [conv |-> conv,
             erange |-> IF neg THEN MagLess(LLongMinDigits, mag)
                        ELSE MagLess(LLongMaxDigits, mag),
             val |-> [neg |-> neg /\ mag # <<>>,
                      mag |-> IF mag = <<>> THEN <<"0">> ELSE mag]]
        digits(to) == value(StripLeadingZeros(SubSeq(tmp, from, to - 1)), to > from)
    IN digits(digits_end(tmp, from))

\* A double, held as the decimal 0.d1d2...dn x 10^exp with d1 # 0 and dn # 0
\* (no digits: zero). Decimal literals of up to 15 significant digits are held
\* exactly by this form as far as printing them with 6 digits can tell.
mk_double(neg, ds, pos) ==
    LET stripped(lead, digs) ==
            IF digs = <<>> THEN [neg |-> neg, digs |-> <<>>, exp |-> 0]
            ELSE [neg |-> neg, digs |-> digs, exp |-> pos - (Len(ds) - Len(lead))]
        leading(lead) == stripped(lead, StripTrailingZeros(lead))
    IN leading(StripLeadingZeros(ds))

double_zero == [neg |-> FALSE, digs |-> <<>>, exp |-> 0]

\* strtod(tmp, &endp) on [sign] (digit | '.')* [ (e|E) [sign] digit* ].
strtod(tmp) ==
    LET signed == tmp # <<>> /\ tmp[1] \in {"+", "-"}
        neg == signed /\ tmp[1] = "-"
        from == IF signed THEN 2 ELSE 1
        \* The exponent whose digits are tmp[efrom .. eend - 1].
        exp_value(eneg, efrom, eend) ==
            IF eend > efrom
            THEN (IF eneg THEN -1 ELSE 1) * ExpToNat(SubSeq(tmp, efrom, eend - 1))
            ELSE 0
        exp_digits(eneg, efrom) == exp_value(eneg, efrom, digits_end(tmp, efrom))
        exp_sign(fend, esigned) ==
            exp_digits(esigned /\ tmp[fend + 1] = "-",
                       IF esigned THEN fend + 2 ELSE fend + 1)
        \* The exponent part that starts at index fend, 0 when there is none.
        exponent(fend) ==
            IF fend <= Len(tmp) /\ tmp[fend] \in {"e", "E"}
            THEN exp_sign(fend, fend + 1 <= Len(tmp) /\ tmp[fend + 1] \in {"+", "-"})
            ELSE 0
        range(conv, v) ==
            [conv |-> conv,
             erange |-> /\ v.digs # <<>>
                        /\ \/ v.exp > DblMaxExp10
                           \/ v.exp = DblMaxExp10 /\ ~FracLess(v.digs, DblMaxDigits)
                           \/ v.exp < DblMinExp10
                           \/ v.exp = DblMinExp10 /\ FracLess(v.digs, DblMinDigits),
             val |-> v]
        parts(ipart, fpart, e) ==
            range(ipart \o fpart # <<>>, mk_double(neg, ipart \o fpart, Len(ipart) + e))
        fraction(iend, hasdot, fend) ==
            parts(SubSeq(tmp, from, iend - 1),
                  IF hasdot THEN SubSeq(tmp, iend + 1, fend - 1) ELSE <<>>,
                  exponent(fend))
        dot(iend, hasdot) ==
            fraction(iend, hasdot, IF hasdot THEN digits_end(tmp, iend + 1) ELSE iend)
        integer(iend) == dot(iend, iend <= Len(tmp) /\ tmp[iend] = ".")
    IN integer(digits_end(tmp, from))

RECURSIVE number_end(_, _, _, _, _)
\* The for (;;) loop of read_number: the cursor after the number's bytes and
\* the three flags.
number_end(src, lex, has_dot, has_exp, has_digit) ==
    LET exp_sign(l1) ==
            number_end(src,
                IF lex_peek(src, l1) \in {"+", "-"} THEN lex_bump(src, l1) ELSE l1,
                has_dot, TRUE, has_digit)
        at(p) ==
            IF p = NoByte
            THEN [lex |-> lex, has_dot |-> has_dot, has_exp |-> has_exp,
                  has_digit |-> has_digit]
            ELSE IF p \in Digit
            THEN number_end(src, lex_bump(src, lex), has_dot, has_exp, TRUE)
            ELSE IF p = "." /\ ~has_dot /\ ~has_exp
            THEN number_end(src, lex_bump(src, lex), TRUE, has_exp, has_digit)
            ELSE IF p \in {"e", "E"} /\ ~has_exp
            THEN exp_sign(lex_bump(src, lex))
            ELSE [lex |-> lex, has_dot |-> has_dot, has_exp |-> has_exp,
                  has_digit |-> has_digit]
    IN at(lex_peek(src, lex))

int_zero == [neg |-> FALSE, mag |-> <<"0">>]

\* read_number with the float test on has_dot alone: a literal with an exponent
\* and no dot goes to strtoll.
read_number_dot_only(src, lex) ==
    With(number_end(src,
             IF lex_peek(src, lex) \in {"+", "-"} THEN lex_bump(src, lex) ELSE lex,
             FALSE, FALSE, FALSE),
         LAMBDA r :
             With([tmp |-> SubSeq(src, lex.idx + 1, r.lex.idx),
                   bad |-> xcdn_error_new("XCDN_ERR_INVALID_NUMBER", lex_span(r.lex))],
                  LAMBDA a :
                      IF ~r.has_digit
                      THEN [lex |-> r.lex, is_float |-> FALSE, iv |-> int_zero,
                            fv |-> double_zero, err |-> a.bad]
                      ELSE IF r.has_dot
                      THEN With(strtod(a.tmp), LAMBDA c :
                               [lex |-> r.lex, is_float |-> TRUE, iv |-> int_zero,
                                fv |-> c.val,
                                err |-> IF c.erange \/ ~c.conv THEN a.bad
                                        ELSE xcdn_error_none])
                      ELSE With(strtoll(a.tmp), LAMBDA c :
                               [lex |-> r.lex, is_float |-> FALSE, iv |-> c.val,
                                fv |-> double_zero,
                                err |-> IF c.erange \/ ~c.conv THEN a.bad
                                        ELSE xcdn_error_none])))

\* read_number: errors carry the span of the cursor AFTER the number's bytes.
read_number(src, lex) ==
    LET scanned(r) ==
            LET len == r.lex.idx - lex.idx
                tmp == SubSeq(src, lex.idx + 1,
                              lex.idx + (IF len >= TmpSize THEN TmpSize - 1 ELSE len))
                bad == xcdn_error_new("XCDN_ERR_INVALID_NUMBER", lex_span(r.lex))
                as_float(c) ==
                    [lex |-> r.lex, is_float |-> TRUE, iv |-> int_zero, fv |-> c.val,
                     err |-> IF c.erange \/ ~c.conv THEN bad ELSE xcdn_error_none]
                as_int(c) ==
                    [lex |-> r.lex, is_float |-> FALSE, iv |-> c.val,
                     fv |-> double_zero,
                     err |-> IF c.erange \/ ~c.conv THEN bad ELSE xcdn_error_none]
            IN IF ~r.has_digit
               THEN [lex |-> r.lex, is_float |-> FALSE, iv |-> int_zero,
                     fv |-> double_zero, err |-> bad]
               ELSE IF r.has_dot \/ r.has_exp THEN as_float(strtod(tmp))
               ELSE as_int(strtoll(tmp))
    IN scanned(number_end(src,
                   IF lex_peek(src, lex) \in {"+", "-"} THEN lex_bump(src, lex) ELSE lex,
                   FALSE, FALSE, FALSE))

(* ---- tokens ---- *)

\* memset(&tok, 0, sizeof(tok)): type 0 is XCDN_TOK_LBRACE.
tok_zero ==
    [type |-> "XCDN_TOK_LBRACE", span |-> span_zero, str |-> NULL,
     int_val |-> int_zero, float_val |-> double_zero]

SingleCharType(b) ==
    CASE b = "{" -> "XCDN_TOK_LBRACE"
      [] b = "}" -> "XCDN_TOK_RBRACE"
      [] b = "[" -> "XCDN_TOK_LBRACKET"
      [] b = "]" -> "XCDN_TOK_RBRACKET"
      [] b = "(" -> "XCDN_TOK_LPAREN"
      [] b = ")" -> "XCDN_TOK_RPAREN"
      [] b = ":" -> "XCDN_TOK_COLON"
      [] b = "," -> "XCDN_TOK_COMMA"
      [] b = "$" -> "XCDN_TOK_DOLLAR"
      [] b = "#" -> "XCDN_TOK_HASH"
      [] b = "@" -> "XCDN_TOK_AT"

SingleChars == {"{", "}", "[", "]", "(", ")", ":", ",", "$", "#", "@"}

TypedStringType(ch) ==
    CASE ch = "d" -> "XCDN_TOK_D_QUOTED"
      [] ch = "b" -> "XCDN_TOK_B_QUOTED"
      [] ch = "u" -> "XCDN_TOK_U_QUOTED"
      [] ch = "t" -> "XCDN_TOK_T_QUOTED"
      [] ch = "r" -> "XCDN_TOK_R_QUOTED"

StringTokTypes ==
    {"XCDN_TOK_IDENT", "XCDN_TOK_STRING", "XCDN_TOK_TRIPLE_STRING",
     "XCDN_TOK_D_QUOTED", "XCDN_TOK_B_QUOTED", "XCDN_TOK_U_QUOTED",
     "XCDN_TOK_T_QUOTED", "XCDN_TOK_R_QUOTED"}

KeywordText(type) ==
    CASE type = "XCDN_TOK_TRUE" -> <<"t","r","u","e">>
      [] type = "XCDN_TOK_FALSE" -> <<"f","a","l","s","e">>
      [] type = "XCDN_TOK_NULL" -> <<"n","u","l","l">>

\* The token of a failed call: zeroed, type EOF, span never set.
err_tok == [tok_zero EXCEPT !.type = "XCDN_TOK_EOF"]

\* xcdn_lexer_next: [lex, h, tok, err]. The error slot is reset on entry, so
\* err is the error of this call alone.
xcdn_lexer_next(src, lex, h) ==
    LET string_tok(r, type, start) ==
            IF xcdn_error_is_set(r.err)
            THEN [lex |-> r.lex, h |-> r.h, err |-> r.err, tok |-> err_tok]
            ELSE [lex |-> r.lex, h |-> r.h, err |-> r.err,
                  tok |-> [tok_zero EXCEPT !.type = type, !.span = start,
                                           !.str = r.str]]
        number_tok(r, start) ==
            IF xcdn_error_is_set(r.err)
            THEN [lex |-> r.lex, h |-> h, err |-> r.err, tok |-> err_tok]
            ELSE IF r.is_float
            THEN [lex |-> r.lex, h |-> h, err |-> r.err,
                  tok |-> [tok_zero EXCEPT !.type = "XCDN_TOK_FLOAT",
                                           !.span = start, !.float_val = r.fv]]
            ELSE [lex |-> r.lex, h |-> h, err |-> r.err,
                  tok |-> [tok_zero EXCEPT !.type = "XCDN_TOK_INT",
                                           !.span = start, !.int_val = r.iv]]
        ident_tok(r, start) ==
            LET kw == IF r.str.s = KeywordText("XCDN_TOK_TRUE") THEN "XCDN_TOK_TRUE"
                      ELSE IF r.str.s = KeywordText("XCDN_TOK_FALSE") THEN "XCDN_TOK_FALSE"
                      ELSE IF r.str.s = KeywordText("XCDN_TOK_NULL") THEN "XCDN_TOK_NULL"
                      ELSE "XCDN_TOK_IDENT"
            IN IF kw = "XCDN_TOK_IDENT"
               THEN [lex |-> r.lex, h |-> r.h, err |-> xcdn_error_none,
                     tok |-> [tok_zero EXCEPT !.type = kw, !.span = start,
                                              !.str = r.str]]
               ELSE [lex |-> r.lex, h |-> heap_free(r.h, r.str.ptr),
                     err |-> xcdn_error_none,
                     tok |-> [tok_zero EXCEPT !.type = kw, !.span = start]]
        at(l0) ==
            LET start == lex_span(l0)
                b == lex_peek(src, l0)
            IN IF b = NoByte
               THEN [lex |-> l0, h |-> h, err |-> xcdn_error_none,
                     tok |-> [tok_zero EXCEPT !.type = "XCDN_TOK_EOF", !.span = start]]
               ELSE IF b = "\"" /\ lex_peek_at(src, l0, 1) = "\""
                       /\ lex_peek_at(src, l0, 2) = "\""
               THEN string_tok(read_string(src, l0, TRUE, h), "XCDN_TOK_TRIPLE_STRING",
                               start)
               ELSE IF b \in SingleChars
               THEN [lex |-> lex_bump(src, l0), h |-> h, err |-> xcdn_error_none,
                     tok |-> [tok_zero EXCEPT !.type = SingleCharType(b),
                                              !.span = start]]
               ELSE IF b = "\""
               THEN string_tok(read_string(src, l0, FALSE, h), "XCDN_TOK_STRING", start)
               ELSE IF b \in {".", "-", "+"} \/ b \in Digit
               THEN number_tok(read_number(src, l0), start)
               ELSE IF b \in {"d", "b", "u", "t", "r"} /\ lex_peek_at(src, l0, 1) = "\""
               THEN string_tok(read_string(src, lex_bump(src, l0), FALSE, h),
                               TypedStringType(b), start)
               ELSE IF is_ident_start(b) THEN ident_tok(read_ident(src, l0, h), start)
               ELSE [lex |-> l0, h |-> h, tok |-> err_tok,
                     err |-> xcdn_error_new("XCDN_ERR_INVALID_TOKEN", start)]
    IN at(skip_ws_and_comments(src, lex))

\* xcdn_token_free: frees the payload of a string-carrying token.
xcdn_token_free(h, tok) ==
    IF tok.type \in StringTokTypes THEN heap_free(h, tok.str.ptr) ELSE h

(* ------------------------------------------------------------------ *)
(* Document model (ast.c)                                             *)
(*                                                                    *)
(* A Value is [ptr, type, data]; a Node is [ptr, tags, annotations,   *)
(* value]; a Document is [ptr, prolog, values]. Children are held by  *)
(* value (the tree is strictly hierarchical); ptr is the identity of  *)
(* the block. The element buffers that grow_ptr_array reallocates are *)
(* not tracked as blocks of their own.                                *)
(* ------------------------------------------------------------------ *)

\* strdup: a new block with the same bytes (NULL for NULL).
xcdn_strdup(h, s) ==
    IF IsNull(s) THEN [h |-> h, str |-> NULL]
    ELSE [h |-> heap_alloc(h), str |-> mk_str(h.next, s.s)]

alloc_value(h, type, data) ==
    [h |-> heap_alloc(h), v |-> [ptr |-> h.next, type |-> type, data |-> data]]

xcdn_value_null(h) == alloc_value(h, "XCDN_VAL_NULL", FALSE)

xcdn_value_bool(h, b) == alloc_value(h, "XCDN_VAL_BOOL", b)

xcdn_value_int(h, i) == alloc_value(h, "XCDN_VAL_INT", i)

xcdn_value_float(h, f) == alloc_value(h, "XCDN_VAL_FLOAT", f)

\* xcdn_value_decimal, _datetime, _duration, _uuid and xcdn_value_string: the
\* value block, then a copy of the text.
xcdn_value_text(h, type, s) ==
    LET a == heap_alloc(h)
        d == xcdn_strdup(a, s)
    IN [h |-> d.h, v |-> [ptr |-> h.next, type |-> type, data |-> d.str]]

xcdn_value_decimal(h, s) == xcdn_value_text(h, "XCDN_VAL_DECIMAL", s)

xcdn_value_datetime(h, s) == xcdn_value_text(h, "XCDN_VAL_DATETIME", s)

xcdn_value_duration(h, s) == xcdn_value_text(h, "XCDN_VAL_DURATION", s)

xcdn_value_uuid(h, s) == xcdn_value_text(h, "XCDN_VAL_UUID", s)

xcdn_value_string(h, s) == xcdn_value_text(h, "XCDN_VAL_STRING", s)

\* Takes ownership of the block of s.
xcdn_value_string_owned(h, s) == alloc_value(h, "XCDN_VAL_STRING", s)

\* Takes ownership of the decoded bytes: data is [ptr, bytes].
xcdn_value_bytes_owned(h, data) == alloc_value(h, "XCDN_VAL_BYTES", data)

xcdn_value_array(h) == alloc_value(h, "XCDN_VAL_ARRAY", <<>>)

xcdn_value_object(h) == alloc_value(h, "XCDN_VAL_OBJECT", <<>>)

TextValTypes ==
    {"XCDN_VAL_STRING", "XCDN_VAL_DECIMAL", "XCDN_VAL_DATETIME",
     "XCDN_VAL_DURATION", "XCDN_VAL_UUID"}

xcdn_document_new(h) ==
    [h |-> heap_alloc(h), doc |-> [ptr |-> h.next, prolog |-> <<>>, values |-> <<>>]]

xcdn_node_new(h, value) ==
    [h |-> heap_alloc(h),
     node |-> [ptr |-> h.next, tags |-> <<>>, annotations |-> <<>>, value |-> value]]

xcdn_document_push_value(doc, node) ==
    IF IsNull(doc) \/ IsNull(node) THEN doc
    ELSE [doc EXCEPT !.values = Append(@, node)]

\* The name is copied; the value is taken over.
xcdn_document_push_directive(h, doc, name, value) ==
    IF IsNull(doc) THEN [h |-> h, doc |-> doc]
    ELSE LET d == xcdn_strdup(h, name)
         IN [h |-> d.h,
             doc |-> [doc EXCEPT !.prolog = Append(@, [name |-> d.str, value |-> value])]]

xcdn_node_add_tag(h, node, name) ==
    IF IsNull(node) THEN [h |-> h, node |-> node]
    ELSE LET d == xcdn_strdup(h, name)
         IN [h |-> d.h, node |-> [node EXCEPT !.tags = Append(@, [name |-> d.str])]]

xcdn_node_add_annotation(h, node, name) ==
    IF IsNull(node) THEN [h |-> h, node |-> node]
    ELSE LET d == xcdn_strdup(h, name)
         IN [h |-> d.h,
             node |-> [node EXCEPT !.annotations =
                           Append(@, [name |-> d.str, args |-> <<>>])]]

\* ann is an annotation record; the caller stores the result back where the
\* pointer it passed points to.
xcdn_annotation_push_arg(ann, val) ==
    IF IsNull(val) THEN ann ELSE [ann EXCEPT !.args = Append(@, val)]

\* xcdn_array_push that puts the node in front.
xcdn_array_push_front(arr, node) ==
    IF IsNull(arr) \/ arr.type # "XCDN_VAL_ARRAY" \/ IsNull(node) THEN arr
    ELSE [arr EXCEPT !.data = <<node>> \o @]

xcdn_array_push(arr, node) ==
    IF IsNull(arr) \/ arr.type # "XCDN_VAL_ARRAY" \/ IsNull(node) THEN arr
    ELSE [arr EXCEPT !.data = Append(@, node)]

xcdn_array_get(arr, index) ==
    IF IsNull(arr) \/ arr.type # "XCDN_VAL_ARRAY" THEN NULL
    ELSE IF index >= Len(arr.data) THEN NULL
    ELSE arr.data[index + 1]

xcdn_array_len(arr) ==
    IF IsNull(arr) \/ arr.type # "XCDN_VAL_ARRAY" THEN 0 ELSE Len(arr.data)

\* find_key that finds nothing: every key is taken for a new one.
find_key_none(entries, key, i) == 0

RECURSIVE find_key(_, _, _)
\* for (i = 0; i < len; i++) if (strcmp(entries[i].key, key) == 0): the first
\* such i, 1-based; 0 when there is none.
find_key(entries, key, i) ==
    IF i > Len(entries) THEN 0
    ELSE IF entries[i].key.s = key THEN i
    ELSE find_key(entries, key, i + 1)

RECURSIVE xcdn_value_free(_, _)
RECURSIVE xcdn_node_free(_, _)
RECURSIVE free_nodes(_, _, _)
RECURSIVE free_entries(_, _, _)
RECURSIVE free_values(_, _, _)
RECURSIVE free_annotations(_, _, _)
RECURSIVE free_tags(_, _, _)

free_nodes(h, nodes, i) ==
    IF i > Len(nodes) THEN h
    ELSE free_nodes(xcdn_node_free(h, nodes[i]), nodes, i + 1)

free_entries(h, entries, i) ==
    IF i > Len(entries) THEN h
    ELSE free_entries(xcdn_node_free(heap_free(h, entries[i].key.ptr), entries[i].node),
                      entries, i + 1)

free_values(h, vals, i) ==
    IF i > Len(vals) THEN h
    ELSE free_values(xcdn_value_free(h, vals[i]), vals, i + 1)

free_tags(h, tags, i) ==
    IF i > Len(tags) THEN h
    ELSE free_tags(heap_free(h, tags[i].name.ptr), tags, i + 1)

\* free_annotation for each annotation: the name, then every argument.
free_annotations(h, anns, i) ==
    IF i > Len(anns) THEN h
    ELSE free_annotations(free_values(heap_free(h, anns[i].name.ptr), anns[i].args, 1),
                          anns, i + 1)

xcdn_value_free(h, val) ==
    IF IsNull(val) THEN h
    ELSE LET h1 == IF val.type \in TextValTypes \/ val.type = "XCDN_VAL_BYTES"
                   THEN heap_free(h, val.data.ptr)
                   ELSE IF val.type = "XCDN_VAL_ARRAY" THEN free_nodes(h, val.data, 1)
                   ELSE IF val.type = "XCDN_VAL_OBJECT" THEN free_entries(h, val.data, 1)
                   ELSE h
         IN heap_free(h1, val.ptr)

xcdn_node_free(h, node) ==
    IF IsNull(node) THEN h
    ELSE heap_free(
             xcdn_value_free(
                 free_annotations(free_tags(h, node.tags, 1), node.annotations, 1),
                 node.value),
             node.ptr)

RECURSIVE free_prolog(_, _, _)
free_prolog(h, prolog, i) ==
    IF i > Len(prolog) THEN h
    ELSE free_prolog(xcdn_value_free(heap_free(h, prolog[i].name.ptr), prolog[i].value),
                     prolog, i + 1)

xcdn_document_free(h, doc) ==
    IF IsNull(doc) THEN h
    ELSE heap_free(free_nodes(free_prolog(h, doc.prolog, 1), doc.values, 1), doc.ptr)

\* xcdn_object_set that moves the entry of an existing key to the end.
xcdn_object_set_move(h, obj, key, node) ==
    IF IsNull(obj) \/ obj.type # "XCDN_VAL_OBJECT" \/ IsNull(key) \/ IsNull(node)
    THEN [h |-> h, obj |-> obj]
    ELSE LET i == find_key(obj.data, key.s, 1)
         IN IF i > 0
            THEN [h |-> xcdn_node_free(h, obj.data[i].node),
                  obj |-> [obj EXCEPT !.data =
                               SubSeq(@, 1, i - 1) \o SubSeq(@, i + 1, Len(@))
                               \o <<[key |-> @[i].key, node |-> node]>>]]
            ELSE LET d == xcdn_strdup(h, key)
                 IN [h |-> d.h,
                     obj |-> [obj EXCEPT !.data = Append(@, [key |-> d.str, node |-> node])]]

\* xcdn_object_set that does not free the node it replaces.
xcdn_object_set_keep(h, obj, key, node) ==
    IF IsNull(obj) \/ obj.type # "XCDN_VAL_OBJECT" \/ IsNull(key) \/ IsNull(node)
    THEN [h |-> h, obj |-> obj]
    ELSE LET i == find_key(obj.data, key.s, 1)
         IN IF i > 0
            THEN [h |-> h, obj |-> [obj EXCEPT !.data[i].node = node]]
            ELSE LET d == xcdn_strdup(h, key)
                 IN [h |-> d.h,
                     obj |-> [obj EXCEPT !.data = Append(@, [key |-> d.str, node |-> node])]]

\* xcdn_object_set(obj, key, node): key is the text compared with strcmp. An
\* existing key keeps its entry and has its node freed and replaced; a new key
\* is copied into a new last entry.
xcdn_object_set(h, obj, key, node) ==
    IF IsNull(obj) \/ obj.type # "XCDN_VAL_OBJECT" \/ IsNull(key) \/ IsNull(node)
    THEN [h |-> h, obj |-> obj]
    ELSE LET i == find_key(obj.data, key.s, 1)
         IN IF i > 0
            THEN [h |-> xcdn_node_free(h, obj.data[i].node),
                  obj |-> [obj EXCEPT !.data[i].node = node]]
            ELSE LET d == xcdn_strdup(h, key)
                 IN [h |-> d.h,
                     obj |-> [obj EXCEPT !.data = Append(@, [key |-> d.str, node |-> node])]]

xcdn_object_get(obj, key) ==
    IF IsNull(obj) \/ obj.type # "XCDN_VAL_OBJECT" THEN NULL
    ELSE LET i == find_key(obj.data, key, 1)
         IN IF i > 0 THEN obj.data[i].node ELSE NULL

xcdn_object_len(obj) ==
    IF IsNull(obj) \/ obj.type # "XCDN_VAL_OBJECT" THEN 0 ELSE Len(obj.data)

xcdn_object_key_at(obj, i) ==
    IF IsNull(obj) \/ obj.type # "XCDN_VAL_OBJECT" \/ i >= Len(obj.data) THEN NULL
    ELSE obj.data[i + 1].key

xcdn_object_node_at(obj, i) ==
    IF IsNull(obj) \/ obj.type # "XCDN_VAL_OBJECT" \/ i >= Len(obj.data) THEN NULL
    ELSE obj.data[i + 1].node

RECURSIVE delims_end(_, _)
\* strtok_r: the index after the run of '.' that starts at index i of buf.
delims_end(buf, i) ==
    IF i <= Len(buf) /\ buf[i] = "." THEN delims_end(buf, i + 1) ELSE i

RECURSIVE segment_end(_, _)
\* strtok_r: the index after the run of bytes other than '.' that starts at i.
segment_end(buf, i) ==
    IF i <= Len(buf) /\ buf[i] # "." THEN segment_end(buf, i + 1) ELSE i

\* strtok_r(.., ".", &saveptr) with saveptr at index i of buf: found = FALSE is
\* the NULL return; otherwise the segment and the new saveptr.
strtok_r(buf, i) ==
    With(delims_end(buf, i), LAMBDA from :
        IF from > Len(buf) THEN [found |-> FALSE, seg |-> <<>>, save |-> from]
        ELSE With(segment_end(buf, from), LAMBDA to :
                 [found |-> TRUE, seg |-> SubSeq(buf, from, to - 1), save |-> to + 1]))

RECURSIVE get_path_loop(_, _, _)
\* The while (segment) loop of xcdn_get_path, tok being the segment at hand.
get_path_loop(current, buf, tok) ==
    IF ~tok.found THEN current
    ELSE IF IsNull(current) \/ IsNull(current.value)
            \/ current.value.type # "XCDN_VAL_OBJECT"
    THEN NULL
    ELSE get_path_loop(xcdn_object_get(current.value, tok.seg), buf,
                       strtok_r(buf, tok.save))

\* xcdn_get_path that starts from the last top-level value.
xcdn_get_path_last(h, doc, path) ==
    IF IsNull(doc) \/ Len(doc.values) = 0 THEN [h |-> h, node |-> NULL]
    ELSE IF IsNull(doc.values[Len(doc.values)]) THEN [h |-> h, node |-> NULL]
    ELSE With(xcdn_strdup(h, path), LAMBDA b :
             [h |-> heap_free(b.h, b.str.ptr),
              node |-> get_path_loop(doc.values[Len(doc.values)], b.str.s,
                                     strtok_r(b.str.s, 1))])

\* xcdn_get_path: the path is copied, cut at the dots and the copy freed.
xcdn_get_path(h, doc, path) ==
    IF IsNull(doc) \/ Len(doc.values) = 0 THEN [h |-> h, node |-> NULL]
    ELSE IF IsNull(doc.values[1]) THEN [h |-> h, node |-> NULL]
    ELSE With(xcdn_strdup(h, path), LAMBDA b :
             [h |-> heap_free(b.h, b.str.ptr),
              node |-> get_path_loop(doc.values[1], b.str.s, strtok_r(b.str.s, 1))])

(* ------------------------------------------------------------------ *)
(* Parser                                                             *)
(* ------------------------------------------------------------------ *)

\* b64_chars of the serializer; b64_table of the parser is its inverse, plus
\* the URL-safe '-' and '_'.
b64_chars ==
    <<"A","B","C","D","E","F","G","H","I","J","K","L","M","N","O","P","Q","R","S","T","U","V","W","X","Y","Z","a","b","c","d","e","f">> \o
    <<"g","h","i","j","k","l","m","n","o","p","q","r","s","t","u","v","w","x","y","z","0","1","2","3","4","5","6","7","8","9","+","/">>

b64_table(c) ==
    IF c = "-" THEN 62
    ELSE IF c = "_" THEN 63
    ELSE IF \E i \in 1..64 : b64_chars[i] = c
    THEN (CHOOSE i \in 1..64 : b64_chars[i] = c) - 1
    ELSE 0

is_b64_char(c) ==
    c \in Upper \/ c \in Lower \/ c \in Digit \/ c \in {"+", "/", "-", "_", "="}

RECURSIVE strip_padding(_)
\* while (in_len > 0 && input[in_len - 1] == '=') in_len--;
strip_padding(input) ==
    IF input # <<>> /\ input[Len(input)] = "="
    THEN strip_padding(SubSeq(input, 1, Len(input) - 1)) ELSE input

\* 2^n for the small n the decoder and the encoder shift by.
Pow2(n) == CASE n = 0 -> 1 [] n = 1 -> 2 [] n = 2 -> 4 [] n = 3 -> 8 [] n = 4 -> 16
             [] n = 5 -> 32 [] n = 6 -> 64 [] n = 7 -> 128 [] n = 8 -> 256
             [] n = 12 -> 4096 [] n = 16 -> 65536 [] n = 18 -> 262144
             [] n = 24 -> 16777216

RECURSIVE decode_loop(_, _, _, _, _)
\* The for loop of decode_base64. accum is kept modulo 2^30: the code keeps it
\* modulo 2^32 and only ever reads its bits below 14. ok = FALSE: a byte that
\* is no base64 character.
decode_loop(input, i, accum, bits, out) ==
    IF i > Len(input) THEN [ok |-> TRUE, out |-> out]
    ELSE LET c == input[i]
         IN IF c \in {"=", " ", "\n", "\r"}
            THEN decode_loop(input, i + 1, accum, bits, out)
            ELSE IF ~is_b64_char(c) THEN [ok |-> FALSE, out |-> out]
            ELSE LET a == (accum % Pow2(24)) * 64 + b64_table(c)
                     b == bits + 6
                 IN IF b >= 8
                    THEN decode_loop(input, i + 1, a, b - 8,
                                     Append(out, (a \div Pow2(b - 8)) % 256))
                    ELSE decode_loop(input, i + 1, a, b, out)

\* decode_base64: the output block is allocated first and freed again when the
\* input is rejected (NULL is returned).
decode_base64(h, input) ==
    LET r == decode_loop(strip_padding(input), 1, 0, 0, <<>>)
    IN IF r.ok
       THEN [h |-> heap_alloc(h), out |-> [ptr |-> h.next, bytes |-> r.out]]
       ELSE [h |-> h, out |-> NULL]

UuidLen == 36

validate_uuid(s) ==
    /\ Len(s) = UuidLen
    /\ \A i \in {8, 13, 18, 23} : s[i + 1] = "-"
    /\ \A i \in 0..(Len(s) - 1) : i \in {8, 13, 18, 23} \/ s[i + 1] \in HexDigit

\* The lexer the parser owns (p->lex over src): xcdn_lexer_next as a function of
\* the lexer's position and the heap. The parser reads the source only through
\* it.
LexerStates ==
    [lex : [idx : Nat, line : Nat, col : Nat],
     h : [next : Nat, live : SUBSET Nat, bad : Nat]]

xcdn_lexer(src) == [a \in LexerStates |-> xcdn_lexer_next(src, a.lex, a.h)]

parser_span(lex) == xcdn_span_new(lex.idx, lex.line, lex.col)

\* parser_t, plus the heap, a log of every error raised during the parse
\* (raised: by the lexer or by the parser, with kind and span, in order) and a
\* log of the calls of xcdn_lexer_next (calls: the index before and after the
\* call, the type of the token returned, whether the call set the error).
parser_init(h) ==
    [lex |-> xcdn_lexer_init, look |-> tok_zero, has_look |-> FALSE,
     err |-> xcdn_error_none, h |-> h, raised |-> <<>>, calls |-> <<>>]

\* p with the result of one xcdn_lexer_next(&p->lex, &p->err) call.
after_lexer_next(p, r) ==
    [p EXCEPT !.lex = r.lex, !.h = r.h, !.err = r.err,
              !.raised = IF xcdn_error_is_set(r.err)
                         THEN Append(@, [by |-> "lexer", kind |-> r.err.kind,
                                         span |-> r.err.span])
                         ELSE @,
              !.calls = Append(@, [from |-> p.lex.idx, to |-> r.lex.idx,
                                   type |-> r.tok.type,
                                   failed |-> xcdn_error_is_set(r.err)])]

\* p->err = xcdn_error_new(kind, span, ...)
parser_fail(p, kind, span) ==
    [p EXCEPT !.err = xcdn_error_new(kind, span),
              !.raised = Append(@, [by |-> "parser", kind |-> kind, span |-> span])]

parser_bump(lexer, p) ==
    IF p.has_look
    THEN [p |-> [p EXCEPT !.has_look = FALSE, !.look = tok_zero], t |-> p.look]
    ELSE With(lexer[[lex |-> p.lex, h |-> p.h]], LAMBDA r :
             [p |-> after_lexer_next(p, r), t |-> r.tok])

parser_peek_type(lexer, p) ==
    IF ~p.has_look
    THEN With(lexer[[lex |-> p.lex, h |-> p.h]], LAMBDA r :
             [p |-> [after_lexer_next(p, r) EXCEPT !.look = r.tok, !.has_look = TRUE],
              type |-> r.tok.type])
    ELSE [p |-> p, type |-> p.look.type]

\* p with its heap replaced.
with_heap(p, h) == [p EXCEPT !.h = h]

parser_expect(lexer, p, kind) ==
    With(parser_bump(lexer, p), LAMBDA b :
        IF b.t.type # kind
        THEN With(parser_fail(b.p, "XCDN_ERR_EXPECTED", b.t.span), LAMBDA p1 :
                 [p |-> with_heap(p1, xcdn_token_free(p1.h, b.t)), t |-> tok_zero])
        ELSE b)

parse_ident_string(lexer, p) ==
    With(parser_bump(lexer, p), LAMBDA b :
        IF b.t.type = "XCDN_TOK_IDENT" THEN [p |-> b.p, str |-> b.t.str]
        ELSE With(parser_fail(b.p, "XCDN_ERR_EXPECTED", b.t.span), LAMBDA p1 :
                 [p |-> with_heap(p1, xcdn_token_free(p1.h, b.t)), str |-> NULL]))

parse_key(lexer, p) ==
    With(parser_bump(lexer, p), LAMBDA b :
        IF b.t.type \in {"XCDN_TOK_IDENT", "XCDN_TOK_STRING"}
        THEN [p |-> b.p, str |-> b.t.str]
        ELSE With(parser_fail(b.p, "XCDN_ERR_EXPECTED", b.t.span), LAMBDA p1 :
                 [p |-> with_heap(p1, xcdn_token_free(p1.h, b.t)), str |-> NULL]))

RECURSIVE parse_value(_, _)
RECURSIVE parse_node(_, _)
RECURSIVE parse_object_loop(_, _, _)
RECURSIVE parse_array_loop(_, _, _)
RECURSIVE parse_args_loop(_, _, _)
RECURSIVE parse_node_loop(_, _, _)

\* The optional comma never consumed: a comma is left for the caller's loop.
optional_comma_none(lexer, p) == p

\* p after the optional comma: if (parser_peek_type(p) == COMMA) { bump; free; }
optional_comma(lexer, p) ==
    With(parser_peek_type(lexer, p), LAMBDA k :
        IF k.type = "XCDN_TOK_COMMA"
        THEN With(parser_bump(lexer, k.p), LAMBDA b :
                 with_heap(b.p, xcdn_token_free(b.p.h, b.t)))
        ELSE k.p)

\* The for (;;) loop of parse_object; obj is the object built so far.
parse_object_loop(lexer, p, obj) ==
    IF xcdn_error_is_set(p.err)
    THEN [p |-> with_heap(p, xcdn_value_free(p.h, obj)), val |-> NULL]
    ELSE
    With(parser_peek_type(lexer, p), LAMBDA k :
    IF k.type = "XCDN_TOK_RBRACE"
    THEN [p |-> parser_bump(lexer, k.p).p, val |-> obj]
    ELSE
    With(parse_key(lexer, k.p), LAMBDA key :
    IF IsNull(key.str) \/ xcdn_error_is_set(key.p.err)
    THEN [p |-> with_heap(key.p,
                    xcdn_value_free(heap_free(key.p.h, key.str.ptr), obj)),
          val |-> NULL]
    ELSE
    With(parser_expect(lexer, key.p, "XCDN_TOK_COLON"), LAMBDA c :
    IF xcdn_error_is_set(c.p.err)
    THEN [p |-> with_heap(c.p,
                    xcdn_value_free(heap_free(c.p.h, key.str.ptr), obj)),
          val |-> NULL]
    ELSE
    With(parse_node(lexer, c.p), LAMBDA n :
    IF IsNull(n.node) \/ xcdn_error_is_set(n.p.err)
    THEN [p |-> with_heap(n.p,
                    xcdn_value_free(
                        xcdn_node_free(heap_free(n.p.h, key.str.ptr), n.node),
                        obj)),
          val |-> NULL]
    ELSE
    With(xcdn_object_set(n.p.h, obj, key.str, n.node), LAMBDA s :
        parse_object_loop(lexer,
            optional_comma(lexer, with_heap(n.p, heap_free(s.h, key.str.ptr))),
            s.obj))))))

parse_object(lexer, p) ==
    With(xcdn_value_object(p.h), LAMBDA o :
        parse_object_loop(lexer, with_heap(p, o.h), o.v))

\* The for (;;) loop of parse_array; arr is the array built so far.
parse_array_loop(lexer, p, arr) ==
    IF xcdn_error_is_set(p.err)
    THEN [p |-> with_heap(p, xcdn_value_free(p.h, arr)), val |-> NULL]
    ELSE
    With(parser_peek_type(lexer, p), LAMBDA k :
    IF k.type = "XCDN_TOK_RBRACKET"
    THEN [p |-> parser_bump(lexer, k.p).p, val |-> arr]
    ELSE
    With(parse_node(lexer, k.p), LAMBDA n :
    IF IsNull(n.node) \/ xcdn_error_is_set(n.p.err)
    THEN [p |-> with_heap(n.p,
                    xcdn_value_free(xcdn_node_free(n.p.h, n.node), arr)),
          val |-> NULL]
    ELSE parse_array_loop(lexer, optional_comma(lexer, n.p),
                          xcdn_array_push(arr, n.node))))

parse_array(lexer, p) ==
    With(xcdn_value_array(p.h), LAMBDA a :
        parse_array_loop(lexer, with_heap(p, a.h), a.v))

\* A Value made of a typed-quoted token's text (copied); the token is freed.
typed_text_value(p, t, type) ==
    With(xcdn_value_text(p.h, type, t.str), LAMBDA v :
        [p |-> with_heap(p, xcdn_token_free(v.h, t)), val |-> v.v])

\* A Value that needs no payload block; nothing of the token is freed (it owns
\* nothing).
plain_value(p, v) == [p |-> with_heap(p, v.h), val |-> v.v]

parse_value(lexer, p) ==
    With(parser_bump(lexer, p), LAMBDA b :
    With(b.t, LAMBDA t :
    With(b.p, LAMBDA q :
       IF xcdn_error_is_set(q.err)
       THEN [p |-> with_heap(q, xcdn_token_free(q.h, t)), val |-> NULL]
       ELSE IF t.type = "XCDN_TOK_LBRACE" THEN parse_object(lexer, q)
       ELSE IF t.type = "XCDN_TOK_LBRACKET" THEN parse_array(lexer, q)
       ELSE IF t.type \in {"XCDN_TOK_STRING", "XCDN_TOK_TRIPLE_STRING"}
       THEN plain_value(q, xcdn_value_string_owned(q.h, t.str))
       ELSE IF t.type = "XCDN_TOK_TRUE" THEN plain_value(q, xcdn_value_bool(q.h, TRUE))
       ELSE IF t.type = "XCDN_TOK_FALSE" THEN plain_value(q, xcdn_value_bool(q.h, FALSE))
       ELSE IF t.type = "XCDN_TOK_NULL" THEN plain_value(q, xcdn_value_null(q.h))
       ELSE IF t.type = "XCDN_TOK_INT" THEN plain_value(q, xcdn_value_int(q.h, t.int_val))
       ELSE IF t.type = "XCDN_TOK_FLOAT"
       THEN plain_value(q, xcdn_value_float(q.h, t.float_val))
       ELSE IF t.type = "XCDN_TOK_D_QUOTED" THEN typed_text_value(q, t, "XCDN_VAL_DECIMAL")
       ELSE IF t.type = "XCDN_TOK_B_QUOTED"
       THEN With(decode_base64(q.h, t.str.s), LAMBDA d :
                IF IsNull(d.out)
                THEN With(parser_fail(with_heap(q, d.h), "XCDN_ERR_INVALID_BASE64",
                                      t.span), LAMBDA q1 :
                         [p |-> with_heap(q1, xcdn_token_free(q1.h, t)), val |-> NULL])
                ELSE With(xcdn_value_bytes_owned(d.h, d.out), LAMBDA v :
                         [p |-> with_heap(q, xcdn_token_free(v.h, t)), val |-> v.v]))
       ELSE IF t.type = "XCDN_TOK_U_QUOTED"
       THEN IF ~validate_uuid(t.str.s)
            THEN With(parser_fail(q, "XCDN_ERR_INVALID_UUID", t.span), LAMBDA q1 :
                     [p |-> with_heap(q1, xcdn_token_free(q1.h, t)), val |-> NULL])
            ELSE typed_text_value(q, t, "XCDN_VAL_UUID")
       ELSE IF t.type = "XCDN_TOK_T_QUOTED" THEN typed_text_value(q, t, "XCDN_VAL_DATETIME")
       ELSE IF t.type = "XCDN_TOK_R_QUOTED" THEN typed_text_value(q, t, "XCDN_VAL_DURATION")
       ELSE With(parser_fail(q, "XCDN_ERR_EXPECTED", t.span), LAMBDA q1 :
                [p |-> with_heap(q1, xcdn_token_free(q1.h, t)), val |-> NULL]))))

\* node with val pushed to its last annotation (ann = &annotations[len - 1]).
push_arg_last(node, val) ==
    [node EXCEPT !.annotations[Len(node.annotations)] =
                     xcdn_annotation_push_arg(@, val)]

\* node freed, NULL returned.
node_fail(p, node) == [p |-> with_heap(p, xcdn_node_free(p.h, node)), node |-> NULL]

\* The inner for (;;) of parse_node: the arguments of the last annotation, up
\* to and including the closing parenthesis.
parse_args_loop(lexer, p, node) ==
    With(parse_value(lexer, p), LAMBDA v :
    IF IsNull(v.val) \/ xcdn_error_is_set(v.p.err)
    THEN node_fail(with_heap(v.p, xcdn_value_free(v.p.h, v.val)), node)
    ELSE
    With(push_arg_last(node, v.val), LAMBDA node1 :
    With(parser_peek_type(lexer, v.p), LAMBDA k :
    IF k.type = "XCDN_TOK_COMMA"
    THEN parse_args_loop(lexer, parser_bump(lexer, k.p).p, node1)
    ELSE IF k.type = "XCDN_TOK_RPAREN"
    THEN [p |-> parser_bump(lexer, k.p).p, node |-> node1]
    ELSE With(parser_bump(lexer, k.p), LAMBDA bad :
         With(parser_fail(bad.p, "XCDN_ERR_EXPECTED", bad.t.span), LAMBDA p1 :
             node_fail(with_heap(p1, xcdn_token_free(p1.h, bad.t)), node1))))))

\* The decoration loop of parse_node and the value after it.
parse_node_loop(lexer, p, node) ==
    IF xcdn_error_is_set(p.err) THEN node_fail(p, node)
    ELSE
    With(parser_peek_type(lexer, p), LAMBDA k :
    IF k.type = "XCDN_TOK_AT"
    THEN With(parse_ident_string(lexer, parser_bump(lexer, k.p).p), LAMBDA name :
         IF IsNull(name.str) \/ xcdn_error_is_set(name.p.err)
         THEN node_fail(with_heap(name.p, heap_free(name.p.h, name.str.ptr)), node)
         ELSE
         With(xcdn_node_add_annotation(name.p.h, node, name.str), LAMBDA a :
         With(parser_peek_type(lexer, with_heap(name.p, heap_free(a.h, name.str.ptr))),
              LAMBDA k1 :
         IF k1.type = "XCDN_TOK_LPAREN"
         THEN With(parser_peek_type(lexer, parser_bump(lexer, k1.p).p), LAMBDA k2 :
              IF k2.type = "XCDN_TOK_RPAREN"
              THEN parse_node_loop(lexer, parser_bump(lexer, k2.p).p, a.node)
              ELSE With(parse_args_loop(lexer, k2.p, a.node), LAMBDA r :
                       IF IsNull(r.node) THEN r
                       ELSE parse_node_loop(lexer, r.p, r.node)))
         ELSE parse_node_loop(lexer, k1.p, a.node))))
    ELSE IF k.type = "XCDN_TOK_HASH"
    THEN With(parse_ident_string(lexer, parser_bump(lexer, k.p).p), LAMBDA name :
         IF IsNull(name.str) \/ xcdn_error_is_set(name.p.err)
         THEN node_fail(with_heap(name.p, heap_free(name.p.h, name.str.ptr)), node)
         ELSE With(xcdn_node_add_tag(name.p.h, node, name.str), LAMBDA a :
                  parse_node_loop(lexer,
                      with_heap(name.p, heap_free(a.h, name.str.ptr)), a.node)))
    ELSE With(parse_value(lexer, k.p), LAMBDA v :
         IF IsNull(v.val) \/ xcdn_error_is_set(v.p.err)
         THEN node_fail(with_heap(v.p, xcdn_value_free(v.p.h, v.val)), node)
         ELSE [p |-> v.p, node |-> [node EXCEPT !.value = v.val]]))

parse_node(lexer, p) ==
    With(xcdn_node_new(p.h, NULL), LAMBDA n :
        parse_node_loop(lexer, with_heap(p, n.h), n.node))

\* doc freed, NULL returned.
doc_fail(p, doc) == [p |-> with_heap(p, xcdn_document_free(p.h, doc)), doc |-> NULL]

RECURSIVE parse_prolog_loop(_, _, _)
\* while (parser_peek_type(p) == XCDN_TOK_DOLLAR) { ... }: a NULL doc in the
\* result means parse_document returned NULL from inside the loop.
parse_prolog_loop(lexer, p, doc) ==
    With(parser_peek_type(lexer, p), LAMBDA k :
    IF k.type # "XCDN_TOK_DOLLAR" THEN [p |-> k.p, doc |-> doc]
    ELSE IF xcdn_error_is_set(k.p.err) THEN doc_fail(k.p, doc)
    ELSE
    With(parse_ident_string(lexer, parser_bump(lexer, k.p).p), LAMBDA name :
    IF IsNull(name.str) \/ xcdn_error_is_set(name.p.err)
    THEN doc_fail(with_heap(name.p, heap_free(name.p.h, name.str.ptr)), doc)
    ELSE
    With(parser_expect(lexer, name.p, "XCDN_TOK_COLON"), LAMBDA c :
    IF xcdn_error_is_set(c.p.err)
    THEN doc_fail(with_heap(c.p, heap_free(c.p.h, name.str.ptr)), doc)
    ELSE
    With(parse_node(lexer, c.p), LAMBDA n :
    IF IsNull(n.node) \/ xcdn_error_is_set(n.p.err)
    THEN doc_fail(with_heap(n.p,
                      xcdn_node_free(heap_free(n.p.h, name.str.ptr), n.node)),
                  doc)
    ELSE
    \* The directive takes the node's value; the node shell (with its
    \* decorations) is freed.
    With(xcdn_document_push_directive(n.p.h, doc, name.str, n.node.value), LAMBDA d :
    With(xcdn_node_free(d.h, [n.node EXCEPT !.value = NULL]), LAMBDA h1 :
        parse_prolog_loop(lexer,
            optional_comma(lexer, with_heap(n.p, heap_free(h1, name.str.ptr))),
            d.doc)))))))

RECURSIVE parse_implicit_loop(_, _, _, _)
\* The implicit object without its loop: the entries after the first one are
\* not read.
parse_implicit_loop_stop(lexer, p, obj, doc) ==
    [p |-> p, obj |-> obj, doc |-> doc]

\* The "subsequent entries until EOF" loop of the implicit object; a NULL doc in
\* the result means obj and doc were freed.
parse_implicit_loop(lexer, p, obj, doc) ==
    IF xcdn_error_is_set(p.err)
    THEN [p |-> with_heap(p, xcdn_document_free(xcdn_value_free(p.h, obj), doc)),
          obj |-> NULL, doc |-> NULL]
    ELSE
    With(parser_peek_type(lexer, p), LAMBDA k :
    IF k.type = "XCDN_TOK_COMMA"
    THEN With(parser_bump(lexer, k.p), LAMBDA b :
             parse_implicit_loop(lexer, with_heap(b.p, xcdn_token_free(b.p.h, b.t)),
                                 obj, doc))
    ELSE IF k.type \in {"XCDN_TOK_IDENT", "XCDN_TOK_STRING"}
    THEN
      With(parse_key(lexer, k.p), LAMBDA key :
      IF IsNull(key.str) \/ xcdn_error_is_set(key.p.err)
      THEN [p |-> with_heap(key.p,
                      xcdn_document_free(
                          xcdn_value_free(heap_free(key.p.h, key.str.ptr), obj),
                          doc)),
            obj |-> NULL, doc |-> NULL]
      ELSE
      With(parser_expect(lexer, key.p, "XCDN_TOK_COLON"), LAMBDA c :
      IF xcdn_error_is_set(c.p.err)
      THEN [p |-> with_heap(c.p,
                      xcdn_document_free(
                          xcdn_value_free(heap_free(c.p.h, key.str.ptr), obj),
                          doc)),
            obj |-> NULL, doc |-> NULL]
      ELSE
      With(parse_node(lexer, c.p), LAMBDA n :
      IF IsNull(n.node) \/ xcdn_error_is_set(n.p.err)
      THEN [p |-> with_heap(n.p,
                      xcdn_document_free(
                          xcdn_value_free(
                              xcdn_node_free(
                                  heap_free(n.p.h, key.str.ptr), n.node),
                              obj),
                          doc)),
            obj |-> NULL, doc |-> NULL]
      ELSE
      With(xcdn_object_set(n.p.h, obj, key.str, n.node), LAMBDA s :
          parse_implicit_loop(lexer,
              with_heap(n.p, heap_free(s.h, key.str.ptr)), s.obj, doc)))))
    ELSE IF k.type = "XCDN_TOK_EOF"
    THEN [p |-> k.p, obj |-> obj, doc |-> doc]
    ELSE With(parser_bump(lexer, k.p), LAMBDA bad :
         With(parser_fail(bad.p, "XCDN_ERR_EXPECTED", bad.t.span), LAMBDA p1 :
             [p |-> with_heap(p1,
                        xcdn_document_free(
                            xcdn_value_free(xcdn_token_free(p1.h, bad.t), obj), doc)),
              obj |-> NULL, doc |-> NULL])))

RECURSIVE parse_stream_loop(_, _, _)
\* while (parser_peek_type(p) != XCDN_TOK_EOF) { ... push_value ... }
parse_stream_loop(lexer, p, doc) ==
    With(parser_peek_type(lexer, p), LAMBDA k :
    IF k.type = "XCDN_TOK_EOF" THEN [p |-> k.p, doc |-> doc]
    ELSE IF xcdn_error_is_set(k.p.err) THEN doc_fail(k.p, doc)
    ELSE With(parse_node(lexer, k.p), LAMBDA n :
         IF IsNull(n.node) \/ xcdn_error_is_set(n.p.err)
         THEN doc_fail(with_heap(n.p, xcdn_node_free(n.p.h, n.node)), doc)
         ELSE parse_stream_loop(lexer, n.p, xcdn_document_push_value(doc, n.node))))

\* parse_document after the prolog: implicit object, value stream or nothing.
parse_document_body(lexer, p, doc) ==
    With(parser_peek_type(lexer, p), LAMBDA k :
    IF k.type \in {"XCDN_TOK_IDENT", "XCDN_TOK_STRING"}
    THEN
      With(parser_bump(lexer, k.p), LAMBDA kb :
      With(kb.t, LAMBDA key_tok :
      With(parser_peek_type(lexer, kb.p), LAMBDA a :
      IF a.type = "XCDN_TOK_COLON"
      THEN
        With(parser_bump(lexer, a.p).p, LAMBDA p1 :
        With(xcdn_value_object(p1.h), LAMBDA o :
        With(parse_node(lexer, with_heap(p1, o.h)), LAMBDA n :
        IF IsNull(n.node) \/ xcdn_error_is_set(n.p.err)
        THEN doc_fail(with_heap(n.p,
                          xcdn_value_free(
                              xcdn_node_free(
                                  heap_free(n.p.h, key_tok.str.ptr), n.node),
                              o.v)),
                      doc)
        ELSE
        With(xcdn_object_set(n.p.h, o.v, key_tok.str, n.node), LAMBDA s :
        With(parse_implicit_loop(lexer,
                 with_heap(n.p, heap_free(s.h, key_tok.str.ptr)), s.obj, doc),
             LAMBDA l :
        IF IsNull(l.doc) THEN [p |-> l.p, doc |-> NULL]
        ELSE With(xcdn_node_new(l.p.h, l.obj), LAMBDA on :
                 [p |-> with_heap(l.p, on.h),
                  doc |-> xcdn_document_push_value(l.doc, on.node)]))))))
      ELSE IF key_tok.type = "XCDN_TOK_STRING"
      THEN With(xcdn_value_string_owned(a.p.h, key_tok.str), LAMBDA sv :
           With(xcdn_node_new(sv.h, sv.v), LAMBDA sn :
               parse_stream_loop(lexer, with_heap(a.p, sn.h),
                                 xcdn_document_push_value(doc, sn.node))))
      ELSE With(parser_fail(a.p, "XCDN_ERR_EXPECTED", key_tok.span), LAMBDA p1 :
               doc_fail(with_heap(p1, xcdn_token_free(p1.h, key_tok)), doc)))))
    ELSE IF k.type = "XCDN_TOK_EOF" THEN [p |-> k.p, doc |-> doc]
    ELSE With(parse_node(lexer, k.p), LAMBDA n :
         IF IsNull(n.node) \/ xcdn_error_is_set(n.p.err)
         THEN doc_fail(with_heap(n.p, xcdn_node_free(n.p.h, n.node)), doc)
         ELSE parse_stream_loop(lexer, n.p, xcdn_document_push_value(doc, n.node))))

parse_document(lexer, p) ==
    With(xcdn_document_new(p.h), LAMBDA d :
    With(parse_prolog_loop(lexer, with_heap(p, d.h), d.doc), LAMBDA pr :
        IF IsNull(pr.doc) THEN pr ELSE parse_document_body(lexer, pr.p, pr.doc)))

\* xcdn_parse_str without the check of p.err: what parse_document returned is
\* handed to the caller as it is.
xcdn_parse_str_unchecked(src, h) ==
    With(parse_document(xcdn_lexer(src), parser_init(h)), LAMBDA r :
        [doc |-> r.doc, err |-> r.p.err, h |-> r.p.h, p |-> r.p])

\* xcdn_parse_str(src, src_len, &err) on the heap h: the Document (or NULL),
\* the error reported, the heap afterwards, the parser's final state.
xcdn_parse_str(src, h) ==
    With(parse_document(xcdn_lexer(src), parser_init(h)), LAMBDA r :
        IF xcdn_error_is_set(r.p.err)
        THEN [doc |-> NULL, err |-> r.p.err, h |-> xcdn_document_free(r.p.h, r.doc),
              p |-> r.p]
        ELSE [doc |-> r.doc, err |-> xcdn_error_none, h |-> r.p.h, p |-> r.p])

(* ------------------------------------------------------------------ *)
(* Serializer (ser.c)                                                 *)
(* ------------------------------------------------------------------ *)

HexUpperSeq == DigitSeq \o <<"A","B","C","D","E","F">>

\* The control bytes (< 0x20) a text of the model can hold, and their codes.
CtrlBytes == {"\t", "\n", "\r", "\f"}

ctrl_code(ch) ==
    CASE ch = "\t" -> 9 [] ch = "\n" -> 10 [] ch = "\f" -> 12 [] ch = "\r" -> 13

\* printf("%04X", n) for n < 65536.
fmt_04X(n) ==
    <<HexUpperSeq[((n \div 4096) % 16) + 1], HexUpperSeq[((n \div 256) % 16) + 1],
      HexUpperSeq[((n \div 16) % 16) + 1], HexUpperSeq[(n % 16) + 1]>>

RECURSIVE escape_bytes(_, _)
\* The body of write_escaped_string's loop, from byte i of s on.
escape_bytes(s, i) ==
    IF i > Len(s) THEN <<>>
    ELSE LET ch == s[i]
             e == IF ch = "\\" THEN <<"\\", "\\">>
                  ELSE IF ch = "\"" THEN <<"\\", "\"">>
                  ELSE IF ch = "\n" THEN <<"\\", "n">>
                  ELSE IF ch = "\r" THEN <<"\\", "r">>
                  ELSE IF ch = "\t" THEN <<"\\", "t">>
                  ELSE IF ch \in CtrlBytes THEN <<"\\", "u">> \o fmt_04X(ctrl_code(ch))
                  ELSE <<ch>>
         IN e \o escape_bytes(s, i + 1)

\* s is a heap string or NULL.
write_escaped_string(s) ==
    <<"\"">> \o (IF IsNull(s) THEN <<>> ELSE escape_bytes(s.s, 1)) \o <<"\"">>

is_simple_ident(s) ==
    /\ ~IsNull(s)
    /\ s.s # <<>>
    /\ s.s[1] \in Lower \cup Upper \cup {"_"}
    /\ \A i \in 2..Len(s.s) : s.s[i] \in Lower \cup Upper \cup Digit \cup {"_", "-"}

write_key(k) == IF is_simple_ident(k) THEN k.s ELSE write_escaped_string(k)

RECURSIVE Spaces(_)
Spaces(n) == IF n <= 0 THEN <<>> ELSE <<" ">> \o Spaces(n - 1)

write_indent(depth, space) == Spaces(depth * space)

\* b64_encode of three bytes with the third byte left out of n.
b64_quad_two(a, b, c) ==
    LET n == a * Pow2(16) + b * Pow2(8)
    IN <<b64_chars[((n \div Pow2(18)) % 64) + 1], b64_chars[((n \div Pow2(12)) % 64) + 1],
         b64_chars[((n \div Pow2(6)) % 64) + 1], b64_chars[(n % 64) + 1]>>

\* b64_encode of the three bytes a, b, c (n = a << 16 | b << 8 | c).
b64_quad(a, b, c) ==
    LET n == a * Pow2(16) + b * Pow2(8) + c
    IN <<b64_chars[((n \div Pow2(18)) % 64) + 1], b64_chars[((n \div Pow2(12)) % 64) + 1],
         b64_chars[((n \div Pow2(6)) % 64) + 1], b64_chars[(n % 64) + 1]>>

RECURSIVE b64_encode_from(_, _)
\* b64_encode from 0-based index i on.
b64_encode_from(data, i) ==
    LET len == Len(data)
    IN IF i + 2 < len
       THEN b64_quad(data[i + 1], data[i + 2], data[i + 3]) \o b64_encode_from(data, i + 3)
       ELSE IF i < len
       THEN LET q == b64_quad(data[i + 1], IF i + 1 < len THEN data[i + 2] ELSE 0, 0)
            IN <<q[1], q[2], IF i + 1 < len THEN q[3] ELSE "=", "=">>
       ELSE <<>>

b64_encode(data) == b64_encode_from(data, 0)

RECURSIVE NatDigits(_)
\* printf("%d", n) for n >= 0.
NatDigits(n) ==
    IF n < 10 THEN <<DigitSeq[n + 1]>>
    ELSE NatDigits(n \div 10) \o <<DigitSeq[(n % 10) + 1]>>

\* printf("%" PRId64, v) of an int held as sign and magnitude.
fmt_int(v) == (IF v.neg THEN <<"-">> ELSE <<>>) \o v.mag

RECURSIVE DigitsInc(_)
\* The digit sequence plus one in its last place; a carry out of the first
\* place gives one more digit.
DigitsInc(ds) ==
    IF ds = <<>> THEN <<"1">>
    ELSE IF ds[Len(ds)] = "9" THEN DigitsInc(SubSeq(ds, 1, Len(ds) - 1)) \o <<"0">>
    ELSE SubSeq(ds, 1, Len(ds) - 1) \o <<DigitSeq[DigitVal(ds[Len(ds)]) + 2]>>

RECURSIVE Zeros(_)
Zeros(n) == IF n <= 0 THEN <<>> ELSE <<"0">> \o Zeros(n - 1)

\* The precision of "%g".
GPrecision == 6

\* snprintf("%g", v): v rounded to 6 significant digits (a 7th digit of 5 or
\* more rounds up), trailing zeros dropped, in exponent form when the decimal
\* exponent is below -4 or at least 6.
fmt_g(v) ==
    LET sign == IF v.neg THEN <<"-">> ELSE <<>>
    IN IF v.digs = <<>> THEN sign \o <<"0">>
       ELSE
       LET up == Len(v.digs) > GPrecision /\ DigitVal(v.digs[GPrecision + 1]) >= 5
           cut == IF Len(v.digs) > GPrecision THEN SubSeq(v.digs, 1, GPrecision)
                  ELSE v.digs
           inc == IF up THEN DigitsInc(cut) ELSE cut
           carry == Len(inc) > Len(cut)
           ds == IF StripTrailingZeros(inc) = <<>> THEN <<"1">>
                 ELSE StripTrailingZeros(IF carry THEN SubSeq(inc, 1, Len(cut)) ELSE inc)
           X == v.exp - 1 + (IF carry THEN 1 ELSE 0)
       IN IF X < -4 \/ X >= GPrecision
          THEN sign \o <<ds[1]>>
               \o (IF Len(ds) > 1 THEN <<".">> \o Tail(ds) ELSE <<>>)
               \o <<"e", IF X < 0 THEN "-" ELSE "+">>
               \o (LET a == IF X < 0 THEN -X ELSE X
                   IN IF a < 10 THEN <<"0">> \o NatDigits(a) ELSE NatDigits(a))
          ELSE IF X >= 0
          THEN sign
               \o (IF Len(ds) >= X + 1 THEN SubSeq(ds, 1, X + 1)
                   ELSE ds \o Zeros(X + 1 - Len(ds)))
               \o (IF Len(ds) > X + 1 THEN <<".">> \o SubSeq(ds, X + 2, Len(ds))
                   ELSE <<>>)
          ELSE sign \o <<"0", ".">> \o Zeros(-X - 1) \o ds

xcdn_format_default == [pretty |-> TRUE, indent |-> 2, trailing_commas |-> TRUE]

xcdn_format_compact == [pretty |-> FALSE, indent |-> 0, trailing_commas |-> FALSE]

\* A typed-quote wrapper: x"..." with the text verbatim.
write_typed(x, s) == <<x, "\"">> \o (IF IsNull(s) THEN <<>> ELSE s.s) \o <<"\"">>

RECURSIVE write_value(_, _, _)
RECURSIVE write_node(_, _, _)
RECURSIVE write_items(_, _, _, _)
RECURSIVE write_entries(_, _, _, _)
RECURSIVE write_args(_, _)
RECURSIVE write_annotations(_, _)
RECURSIVE write_tags(_, _)

\* The array loop with a space written after the comma between two items.
write_items_spaced(items, i, fmt, depth) ==
    IF i > Len(items) THEN <<>>
    ELSE (IF fmt.pretty THEN write_indent(depth + 1, fmt.indent) ELSE <<>>)
         \o write_node(items[i], fmt, depth + 1)
         \o (IF i < Len(items) THEN <<",", " ">>
             ELSE IF fmt.trailing_commas THEN <<",">> ELSE <<>>)
         \o (IF fmt.pretty THEN <<"\n">> ELSE <<>>)
         \o write_items(items, i + 1, fmt, depth)

\* The for loop of write_value's array case, from 1-based element i on.
write_items(items, i, fmt, depth) ==
    IF i > Len(items) THEN <<>>
    ELSE (IF fmt.pretty THEN write_indent(depth + 1, fmt.indent) ELSE <<>>)
         \o write_node(items[i], fmt, depth + 1)
         \o (IF i < Len(items) \/ fmt.trailing_commas THEN <<",">> ELSE <<>>)
         \o (IF fmt.pretty THEN <<"\n">> ELSE <<>>)
         \o write_items(items, i + 1, fmt, depth)

\* The for loop of write_value's object case, from 1-based entry i on.
write_entries(entries, i, fmt, depth) ==
    IF i > Len(entries) THEN <<>>
    ELSE (IF fmt.pretty THEN write_indent(depth + 1, fmt.indent) ELSE <<>>)
         \o write_key(entries[i].key) \o <<":", " ">>
         \o write_node(entries[i].node, fmt, depth + 1)
         \o (IF i < Len(entries) \/ fmt.trailing_commas THEN <<",">> ELSE <<>>)
         \o (IF fmt.pretty THEN <<"\n">> ELSE <<>>)
         \o write_entries(entries, i + 1, fmt, depth)

write_value(val, fmt, depth) ==
    IF IsNull(val) THEN <<"n","u","l","l">>
    ELSE CASE val.type = "XCDN_VAL_NULL" -> <<"n","u","l","l">>
           [] val.type = "XCDN_VAL_BOOL" ->
                IF val.data THEN <<"t","r","u","e">> ELSE <<"f","a","l","s","e">>
           [] val.type = "XCDN_VAL_INT" -> fmt_int(val.data)
           [] val.type = "XCDN_VAL_FLOAT" -> fmt_g(val.data)
           [] val.type = "XCDN_VAL_DECIMAL" -> write_typed("d", val.data)
           [] val.type = "XCDN_VAL_STRING" -> write_escaped_string(val.data)
           [] val.type = "XCDN_VAL_BYTES" ->
                <<"b", "\"">> \o b64_encode(val.data.bytes) \o <<"\"">>
           [] val.type = "XCDN_VAL_DATETIME" -> write_typed("t", val.data)
           [] val.type = "XCDN_VAL_DURATION" -> write_typed("r", val.data)
           [] val.type = "XCDN_VAL_UUID" -> write_typed("u", val.data)
           [] val.type = "XCDN_VAL_ARRAY" ->
                <<"[">>
                \o (IF fmt.pretty /\ Len(val.data) > 0 THEN <<"\n">> ELSE <<>>)
                \o write_items(val.data, 1, fmt, depth)
                \o (IF fmt.pretty /\ Len(val.data) > 0
                    THEN write_indent(depth, fmt.indent) ELSE <<>>)
                \o <<"]">>
           [] val.type = "XCDN_VAL_OBJECT" ->
                <<"{">>
                \o (IF fmt.pretty /\ Len(val.data) > 0 THEN <<"\n">> ELSE <<>>)
                \o write_entries(val.data, 1, fmt, depth)
                \o (IF fmt.pretty /\ Len(val.data) > 0
                    THEN write_indent(depth, fmt.indent) ELSE <<>>)
                \o <<"}">>

\* The arguments of an annotation from 1-based argument i on, always compact.
write_args(args, i) ==
    IF i > Len(args) THEN <<>>
    ELSE (IF i > 1 THEN <<",", " ">> ELSE <<>>)
         \o write_value(args[i], xcdn_format_compact, 0)
         \o write_args(args, i + 1)

write_annotation(a) ==
    <<"@">> \o a.name.s
    \o (IF Len(a.args) > 0 THEN <<"(">> \o write_args(a.args, 1) \o <<")">> ELSE <<>>)

write_tag(t) == <<"#">> \o t.name.s

write_annotations(anns, i) ==
    IF i > Len(anns) THEN <<>>
    ELSE write_annotation(anns[i]) \o <<" ">> \o write_annotations(anns, i + 1)

write_tags(tags, i) ==
    IF i > Len(tags) THEN <<>>
    ELSE write_tag(tags[i]) \o <<" ">> \o write_tags(tags, i + 1)

write_node(node, fmt, depth) ==
    IF IsNull(node) THEN <<>>
    ELSE write_annotations(node.annotations, 1) \o write_tags(node.tags, 1)
         \o write_value(node.value, fmt, depth)

RECURSIVE write_prolog_comma(_, _, _)
\* The directive loop with the comma written whatever fmt.trailing_commas is.
write_prolog_comma(prolog, i, fmt) ==
    IF i > Len(prolog) THEN <<>>
    ELSE (IF i > 1 /\ fmt.pretty THEN <<"\n">> ELSE <<>>)
         \o <<"$">> \o prolog[i].name.s \o <<":", " ">>
         \o write_value(prolog[i].value, fmt, 0)
         \o <<",", "\n">>
         \o write_prolog_comma(prolog, i + 1, fmt)

RECURSIVE write_prolog(_, _, _)
\* The directive loop of xcdn_to_string_with_format, from 1-based directive i on.
write_prolog(prolog, i, fmt) ==
    IF i > Len(prolog) THEN <<>>
    ELSE (IF i > 1 /\ fmt.pretty THEN <<"\n">> ELSE <<>>)
         \o <<"$">> \o prolog[i].name.s \o <<":", " ">>
         \o write_value(prolog[i].value, fmt, 0)
         \o (IF fmt.trailing_commas THEN <<",">> ELSE <<>>)
         \o <<"\n">>
         \o write_prolog(prolog, i + 1, fmt)

RECURSIVE write_stream(_, _, _)
\* The value loop of xcdn_to_string_with_format, from 1-based node i on.
write_stream(values, i, fmt) ==
    IF i > Len(values) THEN <<>>
    ELSE (IF i > 1 /\ fmt.pretty THEN <<"\n">> ELSE <<>>)
         \o write_node(values[i], fmt, 0)
         \o (IF i < Len(values) /\ fmt.pretty THEN <<"\n">> ELSE <<>>)
         \o write_stream(values, i + 1, fmt)

\* The text returned (its block belongs to the caller and is not tracked).
xcdn_to_string_with_format(doc, fmt) ==
    write_prolog(doc.prolog, 1, fmt) \o write_stream(doc.values, 1, fmt)

xcdn_to_string_pretty(doc) == xcdn_to_string_with_format(doc, xcdn_format_default)

xcdn_to_string_compact(doc) == xcdn_to_string_with_format(doc, xcdn_format_compact)

(* ------------------------------------------------------------------ *)
(* The program: parse a source text, edit the document through the    *)
(* AST API, serialize it, parse the output again, free the document   *)
(* ------------------------------------------------------------------ *)

\* The pieces source texts are built from: brackets, object entries (the key
\* a twice, a quoted key), values with and without a comma, a string holding a
\* raw line feed, annotations, tags, directives, and pieces that end in the
\* middle of a construct or that the lexer rejects (a byte that starts no
\* token, a sign without digits, a string that is not closed).
Frags ==
    { <<"{">>, <<"}">>, <<"[">>, <<"]">>,
      <<"a", ":", "1", ",">>, <<"a", ":", "2", " ">>, <<"b", ":", "3", " ">>,
      <<"\"", "k", "\"", ":", "4", " ">>,
      <<"1", " ">>, <<"2", ",">>, <<"\"", "x", "\n", "y", "\"">>,
      <<"@", "m", "(", "1", ",", "2", ")">>, <<"@", "n", " ">>,
      <<"#", "t", " ">>, <<"#", "u", " ">>,
      <<"$", "v", ":", "1", " ">>, <<"$", "w", ":", "2", ",">>,
      <<"a", " ">>, <<"@">>, <<"@", "m", "(">>,
      <<"?">>, <<"+">>, <<"\"", "a", "b">> }

\* The most pieces in a source text.
MaxFrags == 3

RECURSIVE Flat(_, _)
\* The text of the pieces i, i + 1, ... of seq.
Flat(seq, i) == IF i > Len(seq) THEN <<>> ELSE seq[i] \o Flat(seq, i + 1)

RECURSIVE Concats(_)
\* The texts made of at most n pieces.
Concats(n) ==
    IF n = 0 THEN {<<>>}
    ELSE LET s == Concats(n - 1) IN s \cup {a \o f : a \in s, f \in Frags}

\* The value 1 under an annotation with an empty argument list, with one and
\* with two arguments, and with a comma after the last argument.
ArgListTexts ==
    { <<"@", "m", "(", ")", "1", " ">>,
      <<"@", "m", "(", "1", ")", "1", " ">>,
      <<"@", "m", "(", "1", ",", ")", "1", " ">>,
      <<"@", "m", "(", "1", ",", "2", ")", "1", " ">>,
      <<"@", "m", "(", "1", ",", "2", ",", ")", "1", " ">> }

\* The source texts: up to MaxFrags pieces, bare, between braces or between
\* brackets, and the annotated values.
Inputs ==
    LET body == Concats(MaxFrags)
    IN body \cup {<<"{">> \o b \o <<"}">> : b \in body}
            \cup {<<"[">> \o b \o <<"]">> : b \in body}
            \cup ArgListTexts

\* The most AST edits applied to one document.
MaxOps == 2

\* src, pc, heap, doc, err, raised, ops, last, fmt, out, doc2, err2: the program
\* of this section. cursor, toks: a program that drives the lexer alone (idx,
\* line and col of its xcdn_lexer_t and the calls made so far). data, dec: a
\* program that encodes and decodes base64 (the bytes to encode, what
\* decode_base64 returned).
VARIABLES src, pc, heap, doc, err, raised, ops, last, fmt, out, doc2, err2,
          cursor, toks, data, dec

vars == <<src, pc, heap, doc, err, raised, ops, last, fmt, out, doc2, err2,
          cursor, toks, data, dec>>

\* The variables of the lexer program and of the base64 program.
unit_vars == <<cursor, toks, data, dec>>

\* No edit yet.
no_op ==
    [op |-> "none", doc |-> NULL, heap |-> heap_init, idx |-> 0, key |-> <<>>,
     arg |-> NULL]

Init ==
    /\ src \in Inputs
    /\ pc = "start"
    /\ heap = heap_init
    /\ doc = NULL
    /\ err = xcdn_error_none
    /\ raised = <<>>
    /\ ops = 0
    /\ last = no_op
    /\ fmt = "none"
    /\ out = <<>>
    /\ doc2 = NULL
    /\ err2 = xcdn_error_none
    /\ cursor = xcdn_lexer_init
    /\ toks = <<>>
    /\ data = <<>>
    /\ dec = NULL

\* doc = xcdn_parse_str(src, len, &err)
ParseStr ==
    /\ pc = "start"
    /\ \E r \in {xcdn_parse_str(src, heap)} :
          /\ doc' = r.doc
          /\ err' = r.err
          /\ heap' = r.h
          /\ raised' = r.p.raised
    /\ pc' = "parsed"
    /\ UNCHANGED <<src, ops, last, fmt, out, doc2, err2, unit_vars>>

\* A string literal of the calling program (not a heap block).
literal(s) == mk_str(-1, s)

\* The keys and names the edits use.
Keys == {<<"a">>, <<"c">>}

Names == {<<"n">>}

\* The kinds of value the edits create.
NewValueKinds == {"int", "object", "array"}

\* The value an edit creates: the Int 7 + ops, an empty Object or an empty Array.
new_value(h, kind) ==
    CASE kind = "int" -> xcdn_value_int(h, [neg |-> FALSE, mag |-> NatDigits(7 + ops)])
      [] kind = "object" -> xcdn_value_object(h)
      [] kind = "array" -> xcdn_value_array(h)

\* xcdn_node_new(new_value(kind))
new_node(h, kind) ==
    LET v == new_value(h, kind) IN xcdn_node_new(v.h, v.v)

\* The record of an edit: the document and the heap before it, and its arguments.
edit(op, idx, key, arg) ==
    [op |-> op, doc |-> doc, heap |-> heap, idx |-> idx, key |-> key, arg |-> arg]

CanEdit == pc = "parsed" /\ ~IsNull(doc) /\ ops < MaxOps

\* xcdn_document_push_value(doc, xcdn_node_new(v))
DocumentPushValue ==
    /\ CanEdit
    /\ \E kind \in NewValueKinds :
         LET n == new_node(heap, kind)
         IN /\ doc' = xcdn_document_push_value(doc, n.node)
            /\ heap' = n.h
            /\ last' = edit("document_push_value", 0, <<>>, n.node)
    /\ ops' = ops + 1
    /\ UNCHANGED <<src, pc, err, raised, fmt, out, doc2, err2, unit_vars>>

\* xcdn_document_push_directive(doc, name, v)
DocumentPushDirective ==
    /\ CanEdit
    /\ \E name \in Names :
         LET v == new_value(heap, "int")
             r == xcdn_document_push_directive(v.h, doc, literal(name), v.v)
         IN /\ doc' = r.doc
            /\ heap' = r.h
            /\ last' = edit("document_push_directive", 0, name, v.v)
    /\ ops' = ops + 1
    /\ UNCHANGED <<src, pc, err, raised, fmt, out, doc2, err2, unit_vars>>

\* xcdn_node_add_tag(doc->values[i], name)
NodeAddTag ==
    /\ CanEdit
    /\ \E i \in 1..Len(doc.values), name \in Names :
         LET r == xcdn_node_add_tag(heap, doc.values[i], literal(name))
         IN /\ doc' = [doc EXCEPT !.values[i] = r.node]
            /\ heap' = r.h
            /\ last' = edit("node_add_tag", i, name, NULL)
    /\ ops' = ops + 1
    /\ UNCHANGED <<src, pc, err, raised, fmt, out, doc2, err2, unit_vars>>

\* xcdn_node_add_annotation(doc->values[i], name)
NodeAddAnnotation ==
    /\ CanEdit
    /\ \E i \in 1..Len(doc.values), name \in Names :
         LET r == xcdn_node_add_annotation(heap, doc.values[i], literal(name))
         IN /\ doc' = [doc EXCEPT !.values[i] = r.node]
            /\ heap' = r.h
            /\ last' = edit("node_add_annotation", i, name, NULL)
    /\ ops' = ops + 1
    /\ UNCHANGED <<src, pc, err, raised, fmt, out, doc2, err2, unit_vars>>

\* xcdn_annotation_push_arg(&doc->values[i]->annotations[last], v)
AnnotationPushArg ==
    /\ CanEdit
    /\ \E i \in 1..Len(doc.values) :
         /\ Len(doc.values[i].annotations) > 0
         /\ LET j == Len(doc.values[i].annotations)
                v == new_value(heap, "int")
            IN /\ doc' = [doc EXCEPT !.values[i].annotations[j] =
                              xcdn_annotation_push_arg(@, v.v)]
               /\ heap' = v.h
               /\ last' = edit("annotation_push_arg", i, <<>>, v.v)
    /\ ops' = ops + 1
    /\ UNCHANGED <<src, pc, err, raised, fmt, out, doc2, err2, unit_vars>>

\* xcdn_array_push(doc->values[i]->value, xcdn_node_new(v))
ArrayPush ==
    /\ CanEdit
    /\ \E i \in 1..Len(doc.values) :
         /\ ~IsNull(doc.values[i].value)
         /\ doc.values[i].value.type = "XCDN_VAL_ARRAY"
         /\ LET n == new_node(heap, "int")
            IN /\ doc' = [doc EXCEPT !.values[i].value = xcdn_array_push(@, n.node)]
               /\ heap' = n.h
               /\ last' = edit("array_push", i, <<>>, n.node)
    /\ ops' = ops + 1
    /\ UNCHANGED <<src, pc, err, raised, fmt, out, doc2, err2, unit_vars>>

\* xcdn_object_set(doc->values[i]->value, key, xcdn_node_new(v))
ObjectSet ==
    /\ CanEdit
    /\ \E i \in 1..Len(doc.values), key \in Keys :
         /\ ~IsNull(doc.values[i].value)
         /\ doc.values[i].value.type = "XCDN_VAL_OBJECT"
         /\ LET n == new_node(heap, "int")
                r == xcdn_object_set(n.h, doc.values[i].value, literal(key), n.node)
            IN /\ doc' = [doc EXCEPT !.values[i].value = r.obj]
               /\ heap' = r.h
               /\ last' = edit("object_set", i, key, n.node)
    /\ ops' = ops + 1
    /\ UNCHANGED <<src, pc, err, raised, fmt, out, doc2, err2, unit_vars>>

\* out = xcdn_to_string_pretty(doc)
ToStringPretty ==
    /\ pc = "parsed"
    /\ ~IsNull(doc)
    /\ out' = xcdn_to_string_pretty(doc)
    /\ fmt' = "pretty"
    /\ pc' = "printed"
    /\ UNCHANGED <<src, heap, doc, err, raised, ops, last, doc2, err2, unit_vars>>

\* out = xcdn_to_string_compact(doc)
ToStringCompact ==
    /\ pc = "parsed"
    /\ ~IsNull(doc)
    /\ out' = xcdn_to_string_compact(doc)
    /\ fmt' = "compact"
    /\ pc' = "printed"
    /\ UNCHANGED <<src, heap, doc, err, raised, ops, last, doc2, err2, unit_vars>>

\* doc2 = xcdn_parse_str(out, len, &err2)
Reparse ==
    /\ pc = "printed"
    /\ \E r \in {xcdn_parse_str(out, heap)} :
          /\ doc2' = r.doc
          /\ err2' = r.err
          /\ heap' = r.h
    /\ pc' = "reparsed"
    /\ UNCHANGED <<src, doc, err, raised, ops, last, fmt, out, unit_vars>>

\* xcdn_document_free(doc)
DocumentFree ==
    /\ pc \in {"parsed", "printed", "reparsed"}
    /\ heap' = xcdn_document_free(heap, doc)
    /\ last' = edit("document_free", 0, <<>>, NULL)
    /\ pc' = "freed"
    /\ UNCHANGED <<src, doc, err, raised, ops, fmt, out, doc2, err2, unit_vars>>

Next ==
    \/ ParseStr
    \/ DocumentPushValue
    \/ DocumentPushDirective
    \/ NodeAddTag
    \/ NodeAddAnnotation
    \/ AnnotationPushArg
    \/ ArrayPush
    \/ ObjectSet
    \/ ToStringPretty
    \/ ToStringCompact
    \/ Reparse
    \/ DocumentFree

Spec == Init /\ [][Next]_vars

(* ------------------------------------------------------------------ *)
(* The lexer program: xcdn_lexer_init on a source text, then           *)
(* xcdn_lexer_next again and again, each token freed                  *)
(* ------------------------------------------------------------------ *)

\* The pieces the lexer's source texts are built from.
LexFrags ==
    { \* Ordinary strings: the reduced escapes, the kept escapes, \u with four
      \* hex digits.
      <<"\"", "a", "\\", "\"", "b", "\"">>, <<"\"", "\\", "\\", "\"">>,
      <<"\"", "\\", "/", "\"">>, <<"\"", "\\", "n", "\"">>,
      <<"\"", "\\", "b", "\\", "f", "\\", "r", "\\", "t", "\"">>,
      <<"\"", "\\", "u", "0", "0", "e", "9", "\"">>,
      \* Strings that are rejected: \u without four hex digits, an unknown
      \* escape, the input ending after a backslash or before the closing quote.
      <<"\"", "\\", "u", "1", "2", "\"">>, <<"\"", "\\", "u", "1">>,
      <<"\"", "\\", "x", "\"">>, <<"\"", "a", "b", "\\">>, <<"\"", "a", "b">>,
      \* A string with a raw line feed and a triple-quoted string.
      <<"\"", "x", "\n", "y", "\"">>,
      <<"\"", "\"", "\"", "x", "\n", "\"", "y", "\"", "\"", "\"">>,
      \* Typed strings, two of them with an escaped quote or backslash.
      <<"d", "\"", "1", "\\", "\"", "2", "\"">>, <<"t", "\"", "\\", "\\", "\"">>,
      <<"u", "\"", "\\", "n", "\"">>, <<"r", "\"", "P", "1", "D", "\"">>,
      <<"b", "\"", "Q", "Q", "=", "=", "\"">>,
      \* Integers at and past the bounds of a signed 64-bit number.
      <<"0">>, <<"-", "0">>, <<"+", "5">>, <<"0", "0", "7">>,
      LLongMaxDigits, LLongMinDigits,
      <<"-">> \o LLongMaxDigits, <<"-">> \o LLongMinDigits,
      <<"-", "9","2","2","3","3","7","2","0","3","6","8","5","4","7","7","5","8","0","9">>,
      \* Floats, and number starts without a digit.
      <<"1", ".", "5">>, <<"1", "e", "5">>, <<"1", "E", "5">>, <<".", "5">>,
      <<"5", ".">>, <<"1", "e">>, <<"-", "e">>, <<".", "e", "1">>,
      <<"1", "e", "9", "9", "9">>, <<"+">>, <<"-">>, <<".">>, <<"+", ".">>,
      \* White space, comments, an identifier, a keyword, single-character
      \* tokens, a byte that starts no token.
      <<" ">>, <<"\n">>, <<"/", "/", " ", "c", "\n">>,
      <<"/", "*", " ", "a", "\n", "b", " ", "*", "/">>, <<"a">>,
      <<"t", "r", "u", "e">>, <<"{">>, <<",">>, <<"?">> }

\* The most pieces in a text of the lexer program.
MaxLexFrags == 2

\* The most xcdn_lexer_next calls on one lexer.
MaxCalls == 6

\* The texts of the lexer program: up to MaxLexFrags pieces.
LexInputs ==
    UNION {{Flat(seq, 1) : seq \in [1..n -> LexFrags]} : n \in 0..MaxLexFrags}

\* The program either calls xcdn_lexer_next ("lexing") or walks the text byte
\* by byte with lex_bump ("scanning"), as the lexer's own loops do.
LexInit ==
    /\ src \in LexInputs
    /\ pc \in {"lexing", "scanning"}
    /\ heap = heap_init
    /\ cursor = xcdn_lexer_init
    /\ toks = <<>>
    /\ err = xcdn_error_none
    /\ doc = NULL
    /\ raised = <<>>
    /\ ops = 0
    /\ last = no_op
    /\ fmt = "none"
    /\ out = <<>>
    /\ doc2 = NULL
    /\ err2 = xcdn_error_none
    /\ data = <<>>
    /\ dec = NULL

\* tok = xcdn_lexer_next(&lex, &err); xcdn_token_free(&tok). Calls go on after
\* an error and after the EOF token. toks records each call: the cursor before
\* it, the token and the error it returned, the cursor after it.
LexerNext ==
    /\ pc = "lexing"
    /\ Len(toks) < MaxCalls
    /\ \E r \in {xcdn_lexer_next(src, cursor, heap)} :
          /\ cursor' = r.lex
          /\ err' = r.err
          /\ heap' = xcdn_token_free(r.h, r.tok)
          /\ toks' = Append(toks, [from |-> cursor, tok |-> r.tok, err |-> r.err,
                                   to |-> r.lex])
    /\ UNCHANGED <<src, pc, doc, raised, ops, last, fmt, out, doc2, err2, data, dec>>

\* lex_bump(&lex), up to the end of the text.
LexBump ==
    /\ pc = "scanning"
    /\ cursor.idx < Len(src)
    /\ cursor' = lex_bump(src, cursor)
    /\ UNCHANGED <<src, pc, heap, doc, err, raised, ops, last, fmt, out, doc2, err2,
                   toks, data, dec>>

LexNext ==
    \/ LexerNext
    \/ LexBump

LexSpec == LexInit /\ [][LexNext]_vars

(* ------------------------------------------------------------------ *)
(* The base64 program: bytes encoded by the serializer's b64_encode    *)
(* and decoded by the parser's decode_base64, and b"..." literals     *)
(* given to xcdn_parse_str                                            *)
(* ------------------------------------------------------------------ *)

\* The byte values the encoded data is made of.
SampleBytes == {0, 1, 63, 128, 251, 255}

\* The most bytes of data.
MaxBytes == 4

ByteSeqs == UNION {[1..n -> SampleBytes] : n \in 0..MaxBytes}

\* The bytes the bodies of the b"..." literals are made of.
BodyBytes ==
    {"A", "Q", "z", "8", "+", "/", "-", "_", "=", " ", "\n", "\r", "\t", "!", "\\"}

\* The most bytes in the body of a literal.
MaxBody == 3

\* The literals b"...".
BodyTexts ==
    {<<"b", "\"">> \o body \o <<"\"">> :
        body \in UNION {[1..n -> BodyBytes] : n \in 0..MaxBody}}

\* The program either has bytes to encode ("bytes") or the text of a literal to
\* parse ("start").
B64Init ==
    /\ \/ pc = "bytes" /\ data \in ByteSeqs /\ src = <<>>
       \/ pc = "start" /\ data = <<>> /\ src \in BodyTexts
    /\ heap = heap_init
    /\ doc = NULL
    /\ err = xcdn_error_none
    /\ raised = <<>>
    /\ ops = 0
    /\ last = no_op
    /\ fmt = "none"
    /\ out = <<>>
    /\ doc2 = NULL
    /\ err2 = xcdn_error_none
    /\ cursor = xcdn_lexer_init
    /\ toks = <<>>
    /\ dec = NULL

\* b64_encode(data, len, &out): the text the serializer writes between b" and ".
B64Encode ==
    /\ pc = "bytes"
    /\ out' = b64_encode(data)
    /\ pc' = "encoded"
    /\ UNCHANGED <<src, heap, doc, err, raised, ops, last, fmt, doc2, err2, cursor,
                   toks, data, dec>>

\* dec = decode_base64(out, len, &dec_len)
DecodeBase64 ==
    /\ pc = "encoded"
    /\ \E r \in {decode_base64(heap, out)} :
          /\ dec' = r.out
          /\ heap' = r.h
    /\ pc' = "decoded"
    /\ UNCHANGED <<src, doc, err, raised, ops, last, fmt, out, doc2, err2, cursor,
                   toks, data>>

B64Next ==
    \/ B64Encode
    \/ DecodeBase64
    \/ ParseStr

B64Spec == B64Init /\ [][B64Next]_vars

(* ------------------------------------------------------------------ *)
(* The reading program: parse a source text, then look up a path or   *)
(* serialize the document with a format and parse the output again    *)
(* ------------------------------------------------------------------ *)

\* Texts for path lookups: nested objects, an implicit object, a stream whose
\* second value alone has the path, a first value that is no object, documents
\* with no values, a key with a dot in it.
PathTexts ==
    { <<"{", "a", ":", "{", "b", ":", "{", "c", ":", "1", "}", " ", "c", ":", "2", "}", " ", "b", ":", "3", "}">>,
      <<"a", ":", "{", "b", ":", "1", "}">>,
      <<"{", "a", ":", "1", "}", "{", "a", ":", "{", "b", ":", "2", "}", "}">>,
      <<"[", "{", "a", ":", "1", "}", "]">>, <<"1">>, <<>>,
      <<"$", "v", ":", "1", " ">>,
      <<"{", "a", ":", "[", "1", "]", " ", "b", ":", "\"", "s", "\"", " ", "c", ":", "{", "}", "}">>,
      <<"{", "\"", "a", ".", "b", "\"", ":", "1", " ", "a", ":", "{", "b", ":", "2", "}", "}">> }

\* Texts for the layouts: objects and arrays, empty, flat and nested, directives
\* with scalar and container values, a stream of values, decorations.
FormatTexts ==
    { <<"{", "a", ":", "1", " ", "b", ":", "[", "1", " ", "2", "]", " ", "c", ":", "{", "}", " ", "d", ":", "[", "]", "}">>,
      <<"[", "{", "a", ":", "1", "}", " ", "[", "]", " ", "{", "}", " ", "[", "[", "1", "]", "]", "]">>,
      <<"$", "v", ":", "1", " ", "$", "w", ":", "[", "1", " ", "2", "]", " ", "{", "a", ":", "1", "}">>,
      <<"$", "v", ":", "{", "a", ":", "1", "}", " ", "1", " ", "2">>,
      <<"@", "m", "(", "1", ",", "2", ")", " ", "#", "t", " ", "[", "1", " ", "@", "n", " ", "2", "]">>,
      <<"a", ":", "1", " ", "b", ":", "{", "c", ":", "[", "1", "]", "}">>,
      <<"[", "]">>, <<"{", "}">>, <<"[", "1", " ", "2", " ", "3", "]">>,
      <<"{", "a", ":", "1", " ", "b", ":", "2", " ", "c", ":", "3", "}">> }

\* Texts for the compact output: a directive before an implicit object, a
\* decimal and a triple-quoted string with a line feed inside, plain values.
NewlineTexts ==
    { <<"$", "v", ":", "1", " ", "a", ":", "1">>, <<"d", "\"", "1", "\n", "2", "\"">>,
      <<"\"", "\"", "\"", "a", "\n", "b", "\"", "\"", "\"">>,
      <<"[", "1", " ", "\"", "s", "\"", "]">>,
      <<"$", "s", ":", "\"", "x", "\"", " ", "1", " ", "2">> }

\* Pieces of a text with nothing in it: the four whitespace bytes, a line
\* comment closed by a line feed, closed block comments.
BlankPieces ==
    { <<" ">>, <<"\t">>, <<"\r">>, <<"\n">>, <<"/", "/", " ", "c", "\n">>,
      <<"/", "*", " ", "a", " ", "*", "/">>,
      <<"/", "*", "\n", "*", "/">>, <<"/", "*", "*", "/">> }

\* What a blank text ends with: nothing, or a line comment that the end of the
\* text closes.
BlankTails == {<<>>, <<"/", "/">>, <<"/", "/", " ", "c">>}

\* The most pieces a blank text is made of.
MaxBlank == 2

\* The blank texts: 0..MaxBlank pieces and a tail.
BlankTexts ==
    {Flat(seq, 1) \o tail : seq \in UNION {[1..n -> BlankPieces] : n \in 0..MaxBlank},
                            tail \in BlankTails}

\* Texts for the keys: objects whose keys are identifiers and quoted strings,
\* among them the three keywords, a typed-literal prefix, a number, a key with
\* a space, the empty key.
KeyTexts ==
    { <<"{", "\"", "t", "r", "u", "e", "\"", ":", "1", "}">>,
      <<"{", "\"", "f", "a", "l", "s", "e", "\"", ":", "1", " ", "a", ":", "2", "}">>,
      <<"{", "a", ":", "1", " ", "\"", "n", "u", "l", "l", "\"", ":", "2", "}">>,
      <<"{", "\"", "a", " ", "b", "\"", ":", "1", "}">>,
      <<"{", "\"", "d", "\"", ":", "1", " ", "b", ":", "2", " ", "u", ":", "3", "}">>,
      <<"{", "\"", "x", "1", "\"", ":", "1", " ", "\"", "1", "x", "\"", ":", "2", "}">>,
      <<"{", "\"", "a", "-", "b", "\"", ":", "1", " ", "_", "c", ":", "2", "}">>,
      <<"{", "\"", "\"", ":", "1", "}">>,
      <<"{", "t", "r", "u", "e", "i", "s", "h", ":", "1", " ", "n", "u", "l", "l", "a", "b", "l", "e", ":", "2", "}">>,
      <<"\"", "t", "r", "u", "e", "\"", ":", "1">>,
      <<"{", "\"", "T", "r", "u", "e", "\"", ":", "1", " ", "\"", "N", "U", "L", "L", "\"", ":", "2", "}">>,
      <<"{", "\"", "1", "2", "\"", ":", "1", "}">> }

\* Texts the parser rejects, at the root and inside an object, an array, an
\* argument list and a directive, with and without a string token read ahead
\* when the error is raised.
FailTexts ==
    { <<"a", " ", "\"", "s", "\"">>, <<"a", " ", "b">>,
      <<"\"", "k", "\"", " ", "\"", "s", "\"">>,
      <<"a", ":", "1", " ", "b", " ", "\"", "s", "\"">>, <<"{", "a", ":", "1">>,
      <<"{", "a", " ", "\"", "s", "\"", "}">>,
      <<"{", "a", ":", "\"", "s", "\"", " ", "b", "}">>,
      <<"{", "\"", "k", "\"", " ", "\"", "s", "\"", "}">>, <<"[", "1", " ", "2">>,
      <<"[", "1", " ", "\"", "s", "\"", " ", "}">>,
      <<"@", "m", "(", "\"", "x", "\"", " ">>,
      <<"@", "m", "(", "1", " ", "\"", "s", "\"", ")">>, <<"\"", "a", "b", "c">>,
      <<"$", "v", " ", "\"", "s", "\"">>, <<"$", "v", ":", "\"", "x", "\"", " ", "{">>,
      <<"#", "t", " ", "#", "u">>,
      <<"{", "a", ":", "[", "{", "b", ":", "\"", "c", "\"", "}", " ", "}">>,
      <<"1", " ", "}">>, <<"a", ":", "1", " ", "\"", "k", "\"">>,
      <<"{", "a", ":", "1", "}", "}">>,
      <<"a", ":", " ", "\"", "s", "\"", " ", "\"", "t", "\"">>,
      <<"[", "d", "\"", "1", "\"", " ", "\"", "s", "\"", " ", ":", "]">> }

\* Texts of one float literal: whole and fractional values, with and without
\* an exponent, negative, zero, large and small.
FloatTexts ==
    { <<"1", ".", "0">>, <<"2", ".", "5">>, <<"0", ".", "5">>, <<"-", "3", ".", "0">>,
      <<"0", ".", "0">>, <<"1", "0", "0", ".", "0">>, <<"1", "e", "5">>,
      <<"1", ".", "5", "e", "3">>, <<"1", "e", "2", "0">>, <<"1", "e", "-", "5">>,
      <<"2", "E", "2">>, <<"-", "0", ".", "2", "5">>,
      <<"1", "2", "3", "4", "5", "6", "7", "8", "9", ".", "0">>,
      <<"1", ".", "0", "e", "0">> }

\* What stands between two entries and after the last one: nothing, one comma,
\* two commas, two commas with a space between them.
Seps == {<<>>, <<",">>, <<",", ",">>, <<",", " ", ",">>}

\* The entries a:1 and b:2 with s1 between them and s2 after them, at the root
\* or between braces.
SepText(s1, s2, braced) ==
    (IF braced THEN <<"{">> ELSE <<>>)
    \o <<"a", ":", "1">> \o s1 \o <<" ", "b", ":", "2">> \o s2
    \o (IF braced THEN <<"}">> ELSE <<>>)

SepTexts == {SepText(s1, s2, braced) : s1 \in Seps, s2 \in Seps, braced \in BOOLEAN}

\* The source texts of the reading program.
ApiInputs ==
    PathTexts \cup FormatTexts \cup NewlineTexts \cup BlankTexts \cup KeyTexts
        \cup FailTexts \cup FloatTexts \cup SepTexts

\* The segments of the paths looked up, and the most segments in a path.
Segments == {<<"a">>, <<"b">>, <<"c">>}

MaxSegments == 3

RECURSIVE Dotted(_, _)
\* The segments i, i + 1, ... of segs with a dot between two of them.
Dotted(segs, i) ==
    IF i > Len(segs) THEN <<>>
    ELSE IF i = Len(segs) THEN segs[i]
    ELSE segs[i] \o <<".">> \o Dotted(segs, i + 1)

\* The paths looked up: 1 to MaxSegments segments, and four paths that are not
\* of that form (empty, a leading dot, two dots in a row, a trailing dot).
Paths ==
    {Dotted(segs, 1) : segs \in UNION {[1..n -> Segments] : n \in 1..MaxSegments}}
        \cup {<<>>, <<".", "a">>, <<"a", ".", ".", "b">>, <<"a", ".">>}

\* The formats: pretty or not, indent 0 or 2, trailing commas or not.
Formats == [pretty : BOOLEAN, indent : {0, 2}, trailing_commas : BOOLEAN]

ApiInit ==
    /\ src \in ApiInputs
    /\ pc = "start"
    /\ heap = heap_init
    /\ doc = NULL
    /\ err = xcdn_error_none
    /\ raised = <<>>
    /\ ops = 0
    /\ last = no_op
    /\ fmt = "none"
    /\ out = <<>>
    /\ doc2 = NULL
    /\ err2 = xcdn_error_none
    /\ cursor = xcdn_lexer_init
    /\ toks = <<>>
    /\ data = <<>>
    /\ dec = NULL

\* node = xcdn_get_path(doc, path); last records the call: the path as key and
\* the node returned as arg.
GetPath ==
    /\ pc = "parsed"
    /\ \E path \in Paths :
         \E r \in {xcdn_get_path(heap, doc, literal(path))} :
            /\ heap' = r.h
            /\ last' = edit("get_path", 0, path, r.node)
    /\ pc' = "looked"
    /\ UNCHANGED <<src, doc, err, raised, ops, fmt, out, doc2, err2, unit_vars>>

\* out = xcdn_to_string_with_format(doc, f)
ToStringWithFormat ==
    /\ pc = "parsed"
    /\ ~IsNull(doc)
    /\ \E f \in Formats :
         /\ out' = xcdn_to_string_with_format(doc, f)
         /\ fmt' = f
    /\ pc' = "printed"
    /\ UNCHANGED <<src, heap, doc, err, raised, ops, last, doc2, err2, unit_vars>>

ApiNext ==
    \/ ParseStr
    \/ GetPath
    \/ ToStringWithFormat
    \/ Reparse

ApiSpec == ApiInit /\ [][ApiNext]_vars

(* ------------------------------------------------------------------ *)
(* Document equivalence                                               *)
(* ------------------------------------------------------------------ *)

RECURSIVE ValueEq(_, _)
RECURSIVE NodeEq(_, _)

\* Two values are of the same variant with the same payload (where they are
\* allocated is not compared).
ValueEq(a, b) ==
    IF IsNull(a) \/ IsNull(b) THEN IsNull(a) /\ IsNull(b)
    ELSE /\ a.type = b.type
         /\ CASE a.type \in TextValTypes -> a.data.s = b.data.s
              [] a.type = "XCDN_VAL_BYTES" -> a.data.bytes = b.data.bytes
              [] a.type = "XCDN_VAL_ARRAY" ->
                   /\ Len(a.data) = Len(b.data)
                   /\ \A i \in 1..Len(a.data) : NodeEq(a.data[i], b.data[i])
              [] a.type = "XCDN_VAL_OBJECT" ->
                   /\ Len(a.data) = Len(b.data)
                   /\ \A i \in 1..Len(a.data) :
                        /\ a.data[i].key.s = b.data[i].key.s
                        /\ NodeEq(a.data[i].node, b.data[i].node)
              [] OTHER -> a.data = b.data

\* Same tags, same annotations with equal arguments, equal values, in order.
NodeEq(a, b) ==
    IF IsNull(a) \/ IsNull(b) THEN IsNull(a) /\ IsNull(b)
    ELSE /\ Len(a.tags) = Len(b.tags)
         /\ \A i \in 1..Len(a.tags) : a.tags[i].name.s = b.tags[i].name.s
         /\ Len(a.annotations) = Len(b.annotations)
         /\ \A i \in 1..Len(a.annotations) :
              /\ a.annotations[i].name.s = b.annotations[i].name.s
              /\ Len(a.annotations[i].args) = Len(b.annotations[i].args)
              /\ \A j \in 1..Len(a.annotations[i].args) :
                   ValueEq(a.annotations[i].args[j], b.annotations[i].args[j])
         /\ ValueEq(a.value, b.value)

\* Same prolog (names and values in order) and same value stream.
DocEq(a, b) ==
    IF IsNull(a) \/ IsNull(b) THEN IsNull(a) /\ IsNull(b)
    ELSE /\ Len(a.prolog) = Len(b.prolog)
         /\ \A i \in 1..Len(a.prolog) :
              /\ a.prolog[i].name.s = b.prolog[i].name.s
              /\ ValueEq(a.prolog[i].value, b.prolog[i].value)
         /\ Len(a.values) = Len(b.values)
         /\ \A i \in 1..Len(a.values) : NodeEq(a.values[i], b.values[i])

\* The document the parser returned for src has been printed in format f and
\* the output parsed again.
Reparsed(f) == pc = "reparsed" /\ fmt = f /\ ops = 0

(* ------------------------------------------------------------------ *)
(* Round trips                                                        *)
(* ------------------------------------------------------------------ *)

\* C1: whenever a source text parses to a document D1, parsing
\* xcdn_to_string_pretty(D1) succeeds and gives a document equal to D1.
C1_PrettyRoundTrip ==
    Reparsed("pretty") => ~IsNull(doc2) /\ DocEq(doc, doc2)

\* A pretty round trip in which a String came back as a String with another
\* text.
C1_StringChanged ==
    /\ Reparsed("pretty")
    /\ ~IsNull(doc2)
    /\ Len(doc.values) = 1
    /\ Len(doc2.values) = 1
    /\ doc.values[1].value.type = "XCDN_VAL_STRING"
    /\ doc2.values[1].value.type = "XCDN_VAL_STRING"
    /\ doc.values[1].value.data.s # doc2.values[1].value.data.s

\* C2: whenever a source text parses to a document D1, parsing
\* xcdn_to_string_compact(D1) succeeds and gives a document equal to D1; a
\* stream of n top-level nodes comes back as n nodes.
C2_CompactRoundTrip ==
    Reparsed("compact") =>
        /\ ~IsNull(doc2)
        /\ Len(doc2.values) = Len(doc.values)
        /\ DocEq(doc, doc2)

\* A compact round trip in which a stream of two nodes came back as one node.
C2_Merged ==
    /\ Reparsed("compact")
    /\ ~IsNull(doc2)
    /\ Len(doc.values) = 2
    /\ Len(doc2.values) = 1

(* ------------------------------------------------------------------ *)
(* Errors                                                             *)
(* ------------------------------------------------------------------ *)

\* C3: xcdn_parse_str returns a document exactly when the reported kind is
\* XCDN_ERR_NONE, and when any lexer or parser error was raised during the
\* parse it returns NULL and a kind other than XCDN_ERR_NONE (no later lexer
\* call clears an error that was raised).
C3_DocumentXorError ==
    /\ pc # "start" =>
         /\ ~IsNull(doc) <=> err.kind = "XCDN_ERR_NONE"
         /\ raised # <<>> => IsNull(doc) /\ err.kind # "XCDN_ERR_NONE"
    /\ pc = "reparsed" => (~IsNull(doc2) <=> err2.kind = "XCDN_ERR_NONE")

\* A parse in which the lexer raised an error after the parser had built part
\* of a document, and that returned NULL with an error.
C3_Witness ==
    /\ pc = "parsed"
    /\ raised # <<>>
    /\ raised[1].by = "lexer"
    /\ raised[1].span.offset > 0
    /\ IsNull(doc)
    /\ err.kind # "XCDN_ERR_NONE"

\* C4: whenever the lexer fails while producing a token, the parse fails with
\* the kind the lexer raised, in every parsing context; a parser error never
\* replaces it.
C4_LexerErrorKept ==
    pc # "start" =>
        \A i \in 1..Len(raised) :
            raised[i].by = "lexer" => err.kind = raised[i].kind

\* A parse in which the lexer raised an error and the parser raised
\* XCDN_ERR_EXPECTED after it, so that the caller is told XCDN_ERR_EXPECTED.
C4_Replaced ==
    /\ pc = "parsed"
    /\ Len(raised) = 2
    /\ raised[1].by = "lexer"
    /\ raised[2].by = "parser"
    /\ err.kind = "XCDN_ERR_EXPECTED"
    /\ raised[1].kind # "XCDN_ERR_EXPECTED"

RECURSIVE token_spans(_, _)
\* The spans at which the tokens of the text s start, from the cursor lex on, up
\* to and including the token the lexer rejects or the end of the input.
token_spans(s, lex) ==
    LET l0 == skip_ws_and_comments(s, lex)
        r == xcdn_lexer_next(s, lex, heap_init)
    IN {lex_span(l0)} \cup
       (IF xcdn_error_is_set(r.err) \/ r.tok.type = "XCDN_TOK_EOF" THEN {}
        ELSE token_spans(s, r.lex))

\* The source text {a 1 }: an object whose key is not followed by a colon.
KeyWithoutColon == <<"{", "a", " ", "1", " ", "}">>

\* C5: the error of a failed parse carries the span of the offending token:
\* an offset of at most the input length, a line and a column of at least 1,
\* and the position of the first byte of a token of the input; for an object
\* whose key is followed by a value the kind is XCDN_ERR_EXPECTED and the span
\* lies inside the object.
C5_ErrorSpan ==
    (pc # "start" /\ IsNull(doc)) =>
        /\ err.span.offset <= Len(src)
        /\ err.span.line >= 1
        /\ err.span.column >= 1
        /\ err.span \in token_spans(src, xcdn_lexer_init)
        /\ src = KeyWithoutColon =>
             /\ err.kind = "XCDN_ERR_EXPECTED"
             /\ err.span.offset \in 1..(Len(src) - 2)

\* A failed parse whose error has a span with line 0 and column 0.
C5_ZeroSpan ==
    /\ pc = "parsed"
    /\ IsNull(doc)
    /\ err.kind # "XCDN_ERR_NONE"
    /\ err.span.line = 0
    /\ err.span.column = 0

(* ------------------------------------------------------------------ *)
(* Source texts taken apart                                           *)
(* ------------------------------------------------------------------ *)

\* The pieces that are one object entry, one directive, one plain value, one
\* decoration.
EntryFrags ==
    { <<"a", ":", "1", ",">>, <<"a", ":", "2", " ">>, <<"b", ":", "3", " ">>,
      <<"\"", "k", "\"", ":", "4", " ">> }

PrologFrags == { <<"$", "v", ":", "1", " ">>, <<"$", "w", ":", "2", ",">> }

ValueFrags == { <<"1", " ">>, <<"2", ",">>, <<"\"", "x", "\n", "y", "\"">> }

DecoFrags ==
    { <<"@", "m", "(", "1", ",", "2", ")">>, <<"@", "n", " ">>,
      <<"#", "t", " ">>, <<"#", "u", " ">> }

\* The sequences of one to MaxFrags pieces of the set S.
PieceSeqs(S) == UNION {[1..n -> S] : n \in 1..MaxFrags}

RECURSIVE Flatten(_, _)
\* The text of the pieces i, i + 1, ... of seq.
Flatten(seq, i) == IF i > Len(seq) THEN <<>> ELSE seq[i] \o Flatten(seq, i + 1)

Braced(t) == <<"{">> \o t \o <<"}">>

Bracketed(t) == <<"[">> \o t \o <<"]">>

\* What a piece is when it is parsed alone: the entry of an entry piece, the
\* directive of a directive piece, the node of a value piece as the only
\* element of an array, and the node of a decoration piece put in front of the
\* value 1.
EntryOf(f) == xcdn_parse_str(f, heap_init).doc.values[1].value.data[1]

DirectiveOf(f) == xcdn_parse_str(f, heap_init).doc.prolog[1]

NodeOf(f) == xcdn_parse_str(Bracketed(f), heap_init).doc.values[1].value.data[1]

DecoOf(f) == xcdn_parse_str(f \o <<"1", " ">>, heap_init).doc.values[1]

\* The parser returned a document for src and nothing has edited it.
JustParsed == pc = "parsed" /\ ops = 0 /\ ~IsNull(doc)

RECURSIVE StripProlog(_)
\* The text after the leading directive pieces.
StripProlog(t) ==
    IF \E f \in PrologFrags : Len(t) >= Len(f) /\ SubSeq(t, 1, Len(f)) = f
    THEN LET f == CHOOSE f \in PrologFrags : Len(t) >= Len(f) /\ SubSeq(t, 1, Len(f)) = f
         IN StripProlog(SubSeq(t, Len(f) + 1, Len(t)))
    ELSE t

\* The types of the first two tokens of the text t.
FirstTwoTypes(t) ==
    LET r1 == xcdn_lexer_next(t, xcdn_lexer_init, heap_init)
        r2 == xcdn_lexer_next(t, r1.lex, heap_init)
    IN IF xcdn_error_is_set(r1.err) THEN <<"none", "none">>
       ELSE <<r1.tok.type, IF xcdn_error_is_set(r2.err) THEN "none" ELSE r2.tok.type>>

\* After the prolog the text starts with an identifier or a string and a colon.
ImplicitStart(t) ==
    LET tt == FirstTwoTypes(StripProlog(t))
    IN tt[1] \in {"XCDN_TOK_IDENT", "XCDN_TOK_STRING"} /\ tt[2] = "XCDN_TOK_COLON"

RECURSIVE FirstKeys(_, _)
\* The keys of the entries es from entry i on, each at its first occurrence.
FirstKeys(es, i) ==
    IF i > Len(es) THEN <<>>
    ELSE (IF \E j \in 1..(i - 1) : es[j].key.s = es[i].key.s THEN <<>>
          ELSE <<es[i].key.s>>) \o FirstKeys(es, i + 1)

\* The node of the last entry of es with key k.
LastNode(es, k) ==
    LET i == CHOOSE i \in 1..Len(es) :
                 es[i].key.s = k /\ \A j \in (i + 1)..Len(es) : es[j].key.s # k
    IN es[i].node

\* obj holds the entries es in source order: one entry for each key, at the
\* place of the key's first occurrence, with the node of its last occurrence.
ObjectHolds(obj, es) ==
    LET ks == FirstKeys(es, 1)
    IN /\ ~IsNull(obj)
       /\ obj.type = "XCDN_VAL_OBJECT"
       /\ xcdn_object_len(obj) = Len(ks)
       /\ \A i \in 1..Len(ks) :
            /\ xcdn_object_key_at(obj, i - 1).s = ks[i]
            /\ NodeEq(xcdn_object_node_at(obj, i - 1), LastNode(es, ks[i]))

\* C6: when, after the prolog, the source starts with an identifier or a
\* string followed by a colon, a successful parse gives a value stream of
\* exactly one node whose value is an Object holding every entry up to the end
\* of the input in source order.
C6_ImplicitObject ==
    (JustParsed /\ ImplicitStart(src)) =>
        /\ Len(doc.values) = 1
        /\ \E seq \in PieceSeqs(EntryFrags) :
             /\ StripProlog(src) = Flatten(seq, 1)
             /\ ObjectHolds(doc.values[1].value, [i \in 1..Len(seq) |-> EntryOf(seq[i])])

\* A document with a directive and an implicit object of two entries, the
\* first one with a quoted key.
C6_Witness ==
    /\ JustParsed
    /\ ImplicitStart(src)
    /\ Len(doc.prolog) = 1
    /\ Len(doc.values) = 1
    /\ xcdn_object_len(doc.values[1].value) = 2
    /\ xcdn_object_key_at(doc.values[1].value, 0).s = <<"k">>

(* ------------------------------------------------------------------ *)
(* Objects and order                                                  *)
(* ------------------------------------------------------------------ *)

RECURSIVE UniqueKeysValue(_)
RECURSIVE UniqueKeysNode(_)

\* In every Object in v the keys at distinct indices differ.
UniqueKeysValue(v) ==
    \/ IsNull(v)
    \/ CASE v.type = "XCDN_VAL_ARRAY" ->
              \A i \in 1..Len(v.data) : UniqueKeysNode(v.data[i])
         [] v.type = "XCDN_VAL_OBJECT" ->
              /\ \A i, j \in 0..(xcdn_object_len(v) - 1) :
                   i # j => xcdn_object_key_at(v, i).s # xcdn_object_key_at(v, j).s
              /\ \A i \in 0..(xcdn_object_len(v) - 1) :
                   UniqueKeysNode(xcdn_object_node_at(v, i))
         [] OTHER -> TRUE

UniqueKeysNode(n) ==
    \/ IsNull(n)
    \/ /\ UniqueKeysValue(n.value)
       /\ \A i \in 1..Len(n.annotations) :
            \A j \in 1..Len(n.annotations[i].args) :
                UniqueKeysValue(n.annotations[i].args[j])

UniqueKeysDoc(d) ==
    \/ IsNull(d)
    \/ /\ \A i \in 1..Len(d.prolog) : UniqueKeysValue(d.prolog[i].value)
       /\ \A i \in 1..Len(d.values) : UniqueKeysNode(d.values[i])

\* The keys of the Object obj.
KeySet(obj) == {obj.data[i].key.s : i \in 1..Len(obj.data)}

\* The Object the last edit was applied to, before and after the edit.
EditedBefore == last.doc.values[last.idx].value

EditedAfter == doc.values[last.idx].value

\* C7: after any sequence of xcdn_object_set calls, by the caller or by the
\* parser, the keys of an Object at distinct indices differ, and
\* xcdn_object_len is the number of distinct keys set so far.
C7_KeyUniqueness ==
    /\ UniqueKeysDoc(doc)
    /\ UniqueKeysDoc(doc2)
    /\ last.op = "object_set" =>
         xcdn_object_len(EditedAfter) = Cardinality(KeySet(EditedBefore) \cup {last.key})
    /\ JustParsed =>
         \A seq \in PieceSeqs(EntryFrags) :
             src \in {Flatten(seq, 1), Braced(Flatten(seq, 1))} =>
                 xcdn_object_len(doc.values[1].value)
                     = Cardinality({EntryOf(seq[i]).key.s : i \in 1..Len(seq)})

\* Two xcdn_object_set calls with the same key on an Object that had another
\* key: the length is still two.
C7_Witness ==
    /\ ops = 2
    /\ last.op = "object_set"
    /\ last.key \in KeySet(EditedBefore)
    /\ xcdn_object_len(EditedBefore) = 2
    /\ xcdn_object_len(EditedAfter) = 2

\* C8: xcdn_object_set on a key the Object has replaces only that entry's
\* node: the length, the keys and their order and every other entry are
\* unchanged, and xcdn_object_get of the key returns the new node; an object
\* the parser reads with a key twice has the last value at the place of the
\* first occurrence.
C8_ReplaceInPlace ==
    /\ (last.op = "object_set" /\ last.key \in KeySet(EditedBefore)) =>
         LET i0 == CHOOSE i \in 1..Len(EditedBefore.data) :
                       EditedBefore.data[i].key.s = last.key
         IN /\ xcdn_object_len(EditedAfter) = xcdn_object_len(EditedBefore)
            /\ \A i \in 1..Len(EditedBefore.data) :
                 /\ EditedAfter.data[i].key = EditedBefore.data[i].key
                 /\ i # i0 => EditedAfter.data[i].node = EditedBefore.data[i].node
            /\ EditedAfter.data[i0].node = last.arg
            /\ xcdn_object_get(EditedAfter, last.key) = last.arg
            /\ \A i \in 1..Len(doc.values) :
                 i # last.idx => doc.values[i] = last.doc.values[i]
            /\ doc.prolog = last.doc.prolog
    /\ JustParsed =>
         \A seq \in PieceSeqs(EntryFrags) :
             src = Braced(Flatten(seq, 1)) =>
                 ObjectHolds(doc.values[1].value,
                             [i \in 1..Len(seq) |-> EntryOf(seq[i])])

\* xcdn_object_set of the first key of an Object with two entries.
C8_Witness ==
    /\ last.op = "object_set"
    /\ xcdn_object_len(EditedBefore) = 2
    /\ xcdn_object_key_at(EditedBefore, 0).s = last.key
    /\ xcdn_object_get(EditedAfter, last.key) = last.arg
    /\ xcdn_object_get(EditedBefore, last.key) # last.arg

\* The sequence new is the sequence old with one element after it.
Appended(new, old) ==
    /\ Len(new) = Len(old) + 1
    /\ \A i \in 1..Len(old) : new[i] = old[i]

RECURSIVE TagsOf(_, _)
\* The tags of the decoration pieces i, i + 1, ... of seq, in order.
TagsOf(seq, i) ==
    IF i > Len(seq) THEN <<>> ELSE DecoOf(seq[i]).tags \o TagsOf(seq, i + 1)

RECURSIVE AnnotationsOf(_, _)
\* The annotations of the decoration pieces i, i + 1, ... of seq, in order.
AnnotationsOf(seq, i) ==
    IF i > Len(seq) THEN <<>>
    ELSE DecoOf(seq[i]).annotations \o AnnotationsOf(seq, i + 1)

\* The keys of the entry pieces of seq are pairwise different.
DistinctKeys(seq) ==
    \A i, j \in 1..Len(seq) : i # j => EntryOf(seq[i]).key.s # EntryOf(seq[j]).key.s

\* The append mutators put the new element at index len and leave the
\* earlier elements where they are.
MutatorsAppend ==
    /\ last.op = "array_push" =>
         /\ Appended(EditedAfter.data, EditedBefore.data)
         /\ xcdn_array_get(EditedAfter, xcdn_array_len(EditedBefore)) = last.arg
    /\ (last.op = "object_set" /\ last.key \notin KeySet(EditedBefore)) =>
         /\ Appended(EditedAfter.data, EditedBefore.data)
         /\ xcdn_object_key_at(EditedAfter, xcdn_object_len(EditedBefore)).s = last.key
         /\ xcdn_object_node_at(EditedAfter, xcdn_object_len(EditedBefore)) = last.arg
    /\ last.op = "document_push_value" =>
         /\ Appended(doc.values, last.doc.values)
         /\ doc.values[Len(doc.values)] = last.arg
    /\ last.op = "document_push_directive" =>
         /\ Appended(doc.prolog, last.doc.prolog)
         /\ doc.prolog[Len(doc.prolog)].name.s = last.key
         /\ doc.prolog[Len(doc.prolog)].value = last.arg
    /\ last.op = "node_add_tag" =>
         /\ Appended(doc.values[last.idx].tags, last.doc.values[last.idx].tags)
         /\ doc.values[last.idx].tags[Len(doc.values[last.idx].tags)].name.s = last.key
    /\ last.op = "node_add_annotation" =>
         LET anns == doc.values[last.idx].annotations
         IN /\ Appended(anns, last.doc.values[last.idx].annotations)
            /\ anns[Len(anns)].name.s = last.key
            /\ anns[Len(anns)].args = <<>>
    /\ last.op = "annotation_push_arg" =>
         LET j == Len(last.doc.values[last.idx].annotations)
             args == doc.values[last.idx].annotations[j].args
         IN /\ Appended(args, last.doc.values[last.idx].annotations[j].args)
            /\ args[Len(args)] = last.arg

\* In a parsed document the i-th top-level node, array element, object entry,
\* directive, tag, annotation and annotation argument is the i-th of the source.
ParserKeepsOrder ==
    /\ \A seq \in PieceSeqs(ValueFrags) :
         /\ src = Flatten(seq, 1) =>
              /\ Len(doc.values) = Len(seq)
              /\ \A i \in 1..Len(seq) : NodeEq(doc.values[i], NodeOf(seq[i]))
         /\ src = Bracketed(Flatten(seq, 1)) =>
              /\ xcdn_array_len(doc.values[1].value) = Len(seq)
              /\ \A i \in 1..Len(seq) :
                   NodeEq(xcdn_array_get(doc.values[1].value, i - 1), NodeOf(seq[i]))
    /\ \A seq \in PieceSeqs(EntryFrags) :
         (DistinctKeys(seq) /\ src \in {Flatten(seq, 1), Braced(Flatten(seq, 1))}) =>
             /\ xcdn_object_len(doc.values[1].value) = Len(seq)
             /\ \A i \in 1..Len(seq) :
                  /\ xcdn_object_key_at(doc.values[1].value, i - 1).s
                         = EntryOf(seq[i]).key.s
                  /\ NodeEq(xcdn_object_node_at(doc.values[1].value, i - 1),
                            EntryOf(seq[i]).node)
    /\ \A seq \in PieceSeqs(PrologFrags) :
         src = Flatten(seq, 1) =>
             /\ Len(doc.prolog) = Len(seq)
             /\ \A i \in 1..Len(seq) :
                  /\ doc.prolog[i].name.s = DirectiveOf(seq[i]).name.s
                  /\ ValueEq(doc.prolog[i].value, DirectiveOf(seq[i]).value)
    /\ \A seq \in PieceSeqs(DecoFrags) :
         src = Flatten(seq, 1) \o <<"1", " ">> =>
             /\ Len(doc.values) = 1
             /\ NodeEq(doc.values[1],
                       [ptr |-> doc.values[1].ptr, tags |-> TagsOf(seq, 1),
                        annotations |-> AnnotationsOf(seq, 1),
                        value |-> NodeOf(<<"1", " ">>).value])
    /\ src = <<"@", "m", "(", "1", ",", "2", ")", "1", " ">> =>
         LET args == doc.values[1].annotations[1].args
         IN /\ Len(args) = 2
            /\ args[1].data.mag = <<"1">>
            /\ args[2].data.mag = <<"2">>

\* C9: the append mutators put the new element at index len and leave every
\* earlier element at its index, and in every parsed document the i-th object
\* entry, array element, directive, top-level node, tag, annotation and
\* annotation argument is the i-th one of the source.
C9_OrderPreserved ==
    /\ MutatorsAppend
    /\ JustParsed => ParserKeepsOrder

\* xcdn_array_push on an array the parser read with two different elements.
C9_Witness ==
    /\ last.op = "array_push"
    /\ xcdn_array_len(EditedBefore) = 2
    /\ ~NodeEq(xcdn_array_get(EditedBefore, 0), xcdn_array_get(EditedBefore, 1))
    /\ xcdn_array_get(EditedAfter, 2) = last.arg

(* ------------------------------------------------------------------ *)
(* Ownership                                                          *)
(* ------------------------------------------------------------------ *)

RECURSIVE ValuePtrs(_)
RECURSIVE NodePtrs(_)
RECURSIVE NodesPtrs(_, _)
RECURSIVE EntriesPtrs(_, _)
RECURSIVE ValuesPtrs(_, _)
RECURSIVE AnnotationsPtrs(_, _)
RECURSIVE PrologPtrs(_, _)

\* The blocks a value, a node, a document own, one element for each owning
\* pointer.
ValuePtrs(v) ==
    IF IsNull(v) THEN <<>>
    ELSE <<v.ptr>> \o
         (CASE v.type \in TextValTypes \/ v.type = "XCDN_VAL_BYTES" -> <<v.data.ptr>>
            [] v.type = "XCDN_VAL_ARRAY" -> NodesPtrs(v.data, 1)
            [] v.type = "XCDN_VAL_OBJECT" -> EntriesPtrs(v.data, 1)
            [] OTHER -> <<>>)

NodePtrs(n) ==
    IF IsNull(n) THEN <<>>
    ELSE <<n.ptr>> \o [i \in 1..Len(n.tags) |-> n.tags[i].name.ptr]
         \o AnnotationsPtrs(n.annotations, 1) \o ValuePtrs(n.value)

NodesPtrs(ns, i) ==
    IF i > Len(ns) THEN <<>> ELSE NodePtrs(ns[i]) \o NodesPtrs(ns, i + 1)

EntriesPtrs(es, i) ==
    IF i > Len(es) THEN <<>>
    ELSE <<es[i].key.ptr>> \o NodePtrs(es[i].node) \o EntriesPtrs(es, i + 1)

ValuesPtrs(vs, i) ==
    IF i > Len(vs) THEN <<>> ELSE ValuePtrs(vs[i]) \o ValuesPtrs(vs, i + 1)

AnnotationsPtrs(anns, i) ==
    IF i > Len(anns) THEN <<>>
    ELSE <<anns[i].name.ptr>> \o ValuesPtrs(anns[i].args, 1)
         \o AnnotationsPtrs(anns, i + 1)

PrologPtrs(ds, i) ==
    IF i > Len(ds) THEN <<>>
    ELSE <<ds[i].name.ptr>> \o ValuePtrs(ds[i].value) \o PrologPtrs(ds, i + 1)

DocPtrs(d) ==
    IF IsNull(d) THEN <<>>
    ELSE <<d.ptr>> \o PrologPtrs(d.prolog, 1) \o NodesPtrs(d.values, 1)

Range(f) == {f[i] : i \in DOMAIN f}

\* The object text {a:1,a:2 }: the key a twice.
DuplicateKey == <<"{", "a", ":", "1", ",", "a", ":", "2", " ", "}">>

\* C10: xcdn_document_free releases every block reachable from a document
\* exactly once: each block has one owner, all of them were allocated, none is
\* allocated afterwards, nothing is freed twice, and a document that is freed
\* leaves nothing allocated; a node displaced by a duplicate key is released
\* when it is replaced and not again.
C10_Ownership ==
    /\ ~IsNull(doc) => heap.bad = 0
    /\ (last.op = "document_free" /\ ~IsNull(last.doc)) =>
         LET ps == DocPtrs(last.doc)
         IN /\ Cardinality(Range(ps)) = Len(ps)
            /\ Range(ps) \subseteq last.heap.live
            /\ heap.live = last.heap.live \ Range(ps)
    /\ (pc = "freed" /\ fmt = "none" /\ ~IsNull(doc)) => heap.live = {}
    /\ (last.op = "object_set" /\ last.key \in KeySet(EditedBefore)) =>
         Range(NodePtrs(xcdn_object_get(EditedBefore, last.key))) \cap heap.live = {}

\* A document read from an object text with a duplicate key, edited twice and
\* freed, with nothing left allocated.
C10_Witness ==
    /\ pc = "freed"
    /\ src = DuplicateKey
    /\ ops = 2
    /\ ~IsNull(doc)
    /\ Len(DocPtrs(doc)) >= 8
    /\ heap.live = {}
    /\ heap.bad = 0

(* ------------------------------------------------------------------ *)
(* Separators                                                         *)
(* ------------------------------------------------------------------ *)

\* The text t with a space at the place of every comma, and with a comma at the
\* place of every space.
NoCommas(t) == [i \in 1..Len(t) |-> IF t[i] = "," THEN " " ELSE t[i]]

AllCommas(t) == [i \in 1..Len(t) |-> IF t[i] = " " THEN "," ELSE t[i]]

\* The explicit objects made of entry pieces and the arrays made of value
\* pieces: after an entry or an element there is a single comma, a space or
\* nothing.
ListTexts ==
    {Braced(Flatten(seq, 1)) : seq \in PieceSeqs(EntryFrags)}
        \cup {Bracketed(Flatten(seq, 1)) : seq \in PieceSeqs(ValueFrags)}

\* C11: a comma between two consecutive object entries or array elements is
\* optional and a trailing comma before } or ] is accepted: an object or array
\* text, the same text without its commas and the same text with a comma
\* after every entry or element all parse, to equal documents.
C11_SeparatorLeniency ==
    (pc = "parsed" /\ ops = 0 /\ src \in ListTexts) =>
        /\ ~IsNull(doc)
        /\ \A t \in {NoCommas(src), AllCommas(src)} :
             \E r \in {xcdn_parse_str(t, heap_init)} :
                 ~IsNull(r.doc) /\ DocEq(doc, r.doc)

\* The object text {a:1,b:3 }: a comma between its two entries and none before
\* the closing brace; the texts without the comma and with a trailing comma
\* differ from it.
C11_Witness ==
    /\ JustParsed
    /\ src = Braced(<<"a", ":", "1", ",", "b", ":", "3", " ">>)
    /\ xcdn_object_len(doc.values[1].value) = 2
    /\ NoCommas(src) # src
    /\ AllCommas(src) # src
    /\ AllCommas(src)[Len(src) - 1] = ","

(* ------------------------------------------------------------------ *)
(* Annotation arguments                                               *)
(* ------------------------------------------------------------------ *)

\* The text t without the comma that stands right before a closing parenthesis.
NoTrailingComma(t) ==
    IF \E i \in 1..(Len(t) - 1) : t[i] = "," /\ t[i + 1] = ")"
    THEN LET i == CHOOSE i \in 1..(Len(t) - 1) : t[i] = "," /\ t[i + 1] = ")"
         IN SubSeq(t, 1, i - 1) \o SubSeq(t, i + 1, Len(t))
    ELSE t

\* C12: an empty argument list gives an annotation with zero arguments, and an
\* argument list with a comma before the closing parenthesis parses to the
\* same annotation as the list without that comma.
C12_ArgumentLists ==
    (pc = "parsed" /\ ops = 0 /\ src \in ArgListTexts) =>
        /\ ~IsNull(doc)
        /\ Len(doc.values) = 1
        /\ Len(doc.values[1].annotations) = 1
        /\ doc.values[1].annotations[1].name.s = <<"m">>
        /\ src = <<"@", "m", "(", ")", "1", " ">> =>
             doc.values[1].annotations[1].args = <<>>
        /\ DocEq(doc, xcdn_parse_str(NoTrailingComma(src), heap_init).doc)

\* The argument list (1,2,) is rejected: XCDN_ERR_EXPECTED at the closing
\* parenthesis, while (1,2) parses to two arguments.
C12_TrailingCommaRejected ==
    /\ pc = "parsed"
    /\ src = <<"@", "m", "(", "1", ",", "2", ",", ")", "1", " ">>
    /\ IsNull(doc)
    /\ err.kind = "XCDN_ERR_EXPECTED"
    /\ err.span.offset = 7
    /\ Len(xcdn_parse_str(NoTrailingComma(src), heap_init).doc
                .values[1].annotations[1].args) = 2

\* The empty argument list is accepted and gives zero arguments.
C12_EmptyListAccepted ==
    /\ JustParsed
    /\ src = <<"@", "m", "(", ")", "1", " ">>
    /\ Len(doc.values[1].annotations) = 1
    /\ doc.values[1].annotations[1].args = <<>>

(* ------------------------------------------------------------------ *)
(* String tokens                                                      *)
(* ------------------------------------------------------------------ *)

\* The calls made so far that returned a token (no error).
Returned == {i \in 1..Len(toks) : ~xcdn_error_is_set(toks[i].err)}

TypedTokTypes ==
    {"XCDN_TOK_D_QUOTED", "XCDN_TOK_B_QUOTED", "XCDN_TOK_U_QUOTED",
     "XCDN_TOK_T_QUOTED", "XCDN_TOK_R_QUOTED"}

\* The source bytes between the quotes of the typed-quoted literal that call i
\* returned: the token starts at the type letter and the call ended after the
\* closing quote.
TypedBody(i) == SubSeq(src, toks[i].tok.span.offset + 3, toks[i].to.idx - 1)

\* C13: the payload of a typed-quoted token is the source bytes between the
\* quotes of the literal, no escape sequence decoded.
C13_TypedPayloadAsIs ==
    \A i \in Returned :
        toks[i].tok.type \in TypedTokTypes => toks[i].tok.str.s = TypedBody(i)

\* The literal d"1\"2" gave a D_QUOTED token whose payload is 1"2: three bytes
\* for the four between the quotes.
C13_EscapeDecoded ==
    /\ src = <<"d", "\"", "1", "\\", "\"", "2", "\"">>
    /\ Len(toks) = 1
    /\ 1 \in Returned
    /\ toks[1].tok.type = "XCDN_TOK_D_QUOTED"
    /\ toks[1].tok.str.s = <<"1", "\"", "2">>
    /\ TypedBody(1) = <<"1", "\\", "\"", "2">>

\* The cursor at the first byte of the token of call i: the cursor the call
\* started with, moved over white space and comments.
TokStart(i) == skip_ws_and_comments(src, toks[i].from)

\* Call i was made at an ordinary string: a quote that does not open a
\* triple-quoted string.
AtOrdinaryString(i) ==
    /\ lex_peek(src, TokStart(i)) = "\""
    /\ ~(lex_peek_at(src, TokStart(i), 1) = "\"" /\ lex_peek_at(src, TokStart(i), 2) = "\"")

RECURSIVE StringRules(_, _, _)
\* The rules of ordinary strings applied to the bytes of t from index i on, acc
\* being the payload so far: the payload, or the error the string fails with.
StringRules(t, i, acc) ==
    IF i > Len(t) THEN [kind |-> "XCDN_ERR_EOF", s |-> <<>>]
    ELSE IF t[i] = "\"" THEN [kind |-> "XCDN_ERR_NONE", s |-> acc]
    ELSE IF t[i] # "\\" THEN StringRules(t, i + 1, Append(acc, t[i]))
    ELSE IF i + 1 > Len(t) THEN [kind |-> "XCDN_ERR_INVALID_ESCAPE", s |-> <<>>]
    ELSE IF t[i + 1] \in {"\"", "\\"} THEN StringRules(t, i + 2, Append(acc, t[i + 1]))
    ELSE IF t[i + 1] \in {"/", "b", "f", "n", "r", "t"}
    THEN StringRules(t, i + 2, acc \o SubSeq(t, i, i + 1))
    ELSE IF /\ t[i + 1] = "u"
            /\ i + 5 <= Len(t)
            /\ \A k \in (i + 2)..(i + 5) : t[k] \in HexDigit
    THEN StringRules(t, i + 6, acc \o SubSeq(t, i, i + 5))
    ELSE [kind |-> "XCDN_ERR_INVALID_ESCAPE", s |-> <<>>]

\* C14: in an ordinary string only \" and \\ are reduced; \/ \b \f \n \r \t
\* are kept as two bytes and \uXXXX as six; \u without four hex digits, any
\* other escape and the input ending after a backslash fail with
\* INVALID_ESCAPE; a string that is not closed fails with EOF.
C14_OrdinaryStrings ==
    \A i \in 1..Len(toks) :
        AtOrdinaryString(i) =>
            \E d \in {StringRules(src, TokStart(i).idx + 2, <<>>)} :
                /\ toks[i].err.kind = d.kind
                /\ d.kind = "XCDN_ERR_NONE" =>
                     /\ toks[i].tok.type = "XCDN_TOK_STRING"
                     /\ toks[i].tok.str.s = d.s

\* The text "\b\f\r\t""\u12": the first call returned a string of eight bytes,
\* the escapes as written, and the second failed with INVALID_ESCAPE.
C14_Witness ==
    /\ src = <<"\"", "\\", "b", "\\", "f", "\\", "r", "\\", "t", "\"">>
                \o <<"\"", "\\", "u", "1", "2", "\"">>
    /\ Len(toks) = 2
    /\ AtOrdinaryString(1)
    /\ toks[1].tok.type = "XCDN_TOK_STRING"
    /\ toks[1].tok.str.s = <<"\\", "b", "\\", "f", "\\", "r", "\\", "t">>
    /\ AtOrdinaryString(2)
    /\ toks[2].err.kind = "XCDN_ERR_INVALID_ESCAPE"

\* The text "a\"b""ab: a string with a reduced quote, then a string that is
\* not closed.
C14_ReducedThenUnclosed ==
    /\ src = <<"\"", "a", "\\", "\"", "b", "\"", "\"", "a", "b">>
    /\ Len(toks) = 2
    /\ toks[1].tok.str.s = <<"a", "\"", "b">>
    /\ AtOrdinaryString(2)
    /\ toks[2].err.kind = "XCDN_ERR_EOF"

(* ------------------------------------------------------------------ *)
(* Number tokens                                                      *)
(* ------------------------------------------------------------------ *)

\* The bytes call i consumed for its token: from the token's first byte to the
\* cursor the call left.
TokText(i) == SubSeq(src, TokStart(i).idx + 1, toks[i].to.idx)

\* The text t without its sign.
Unsigned(t) == IF t # <<>> /\ t[1] \in {"+", "-"} THEN Tail(t) ELSE t

\* Call i was made at an integer literal: an optional sign and digits.
AtIntLiteral(i) ==
    /\ lex_peek(src, TokStart(i)) \in Digit \cup {"+", "-"}
    /\ Unsigned(TokText(i)) # <<>>
    /\ \A k \in 1..Len(Unsigned(TokText(i))) : Unsigned(TokText(i))[k] \in Digit

\* The value of the integer literal of call i, as sign and magnitude.
LiteralValue(i) ==
    LET mag == StripLeadingZeros(Unsigned(TokText(i)))
    IN [neg |-> TokText(i)[1] = "-" /\ mag # <<>>,
        mag |-> IF mag = <<>> THEN <<"0">> ELSE mag]

\* C15: an integer literal lexes to an INT token iff its value v satisfies
\* -(2^63 - 1) <= v <= 2^63 - 1; otherwise it fails with INVALID_NUMBER; the
\* value of an accepted literal is the value written.
C15_IntegerBounds ==
    \A i \in 1..Len(toks) :
        AtIntLiteral(i) =>
            IF MagLess(LLongMaxDigits, LiteralValue(i).mag)
            THEN toks[i].err.kind = "XCDN_ERR_INVALID_NUMBER"
            ELSE /\ toks[i].err.kind = "XCDN_ERR_NONE"
                 /\ toks[i].tok.type = "XCDN_TOK_INT"
                 /\ toks[i].tok.int_val = LiteralValue(i)

\* The literal -9223372036854775808, one past the lower bound, gave an INT
\* token with the value -2^63.
C15_MinAccepted ==
    /\ src = <<"-">> \o LLongMinDigits
    /\ Len(toks) = 1
    /\ AtIntLiteral(1)
    /\ toks[1].err.kind = "XCDN_ERR_NONE"
    /\ toks[1].tok.type = "XCDN_TOK_INT"
    /\ toks[1].tok.int_val = [neg |-> TRUE, mag |-> LLongMinDigits]

\* The literal 9223372036854775808, one past the upper bound, is rejected, and
\* the literals at the two bounds are accepted.
C15_MaxRejected ==
    /\ src = LLongMinDigits
    /\ Len(toks) = 1
    /\ AtIntLiteral(1)
    /\ toks[1].err.kind = "XCDN_ERR_INVALID_NUMBER"
    /\ \A t \in {LLongMaxDigits, <<"-">> \o LLongMaxDigits} :
           xcdn_lexer_next(t, xcdn_lexer_init, heap_init).tok.type = "XCDN_TOK_INT"

\* Call i was made at a number start: a digit, a sign or a dot.
AtNumber(i) == lex_peek(src, TokStart(i)) \in Digit \cup {"+", "-", "."}

\* The text t has one of the bytes of the set bytes.
Contains(t, bytes) == \E k \in 1..Len(t) : t[k] \in bytes

\* C16: a number token is FLOAT iff its text contains '.', 'e' or 'E' and INT
\* otherwise, and a number start followed by no digit at all fails with
\* INVALID_NUMBER.
C16_NumberClassification ==
    \A i \in 1..Len(toks) :
        AtNumber(i) =>
            /\ ~xcdn_error_is_set(toks[i].err) =>
                 toks[i].tok.type =
                     IF Contains(TokText(i), {".", "e", "E"})
                     THEN "XCDN_TOK_FLOAT" ELSE "XCDN_TOK_INT"
            /\ ~Contains(TokText(i), Digit) =>
                 toks[i].err.kind = "XCDN_ERR_INVALID_NUMBER"

\* The text 1E5+.: a FLOAT token for 1E5, then INVALID_NUMBER for the sign and
\* the dot that no digit follows.
C16_Witness ==
    /\ src = <<"1", "E", "5", "+", ".">>
    /\ Len(toks) = 2
    /\ toks[1].tok.type = "XCDN_TOK_FLOAT"
    /\ TokText(1) = <<"1", "E", "5">>
    /\ AtNumber(2)
    /\ TokText(2) = <<"+", ".">>
    /\ toks[2].err.kind = "XCDN_ERR_INVALID_NUMBER"

\* The text 0075.: one FLOAT token (a dot with no fraction digits); the text
\* 007 alone is an INT token with the value 7.
C16_DotWithoutFraction ==
    /\ src = <<"0", "0", "7", "5", ".">>
    /\ Len(toks) = 1
    /\ toks[1].tok.type = "XCDN_TOK_FLOAT"
    /\ xcdn_lexer_next(<<"0", "0", "7">>, xcdn_lexer_init, heap_init).tok.int_val
           = [neg |-> FALSE, mag |-> <<"7">>]

(* ------------------------------------------------------------------ *)
(* Positions                                                          *)
(* ------------------------------------------------------------------ *)

\* (line, column) of span a is at or before that of span b.
PosLeq(a, b) == a.line < b.line \/ (a.line = b.line /\ a.column <= b.column)

\* C19: over the xcdn_lexer_next calls made on one lexer, the spans of the
\* tokens returned without error are non-decreasing in offset and
\* non-decreasing lexicographically in (line, column).
C19_PositionMonotonicity ==
    \A i \in Returned : \A j \in Returned :
        i < j =>
            /\ toks[i].tok.span.offset <= toks[j].tok.span.offset
            /\ PosLeq(toks[i].tok.span, toks[j].tok.span)

\* The text "x(LF)y"true: the string on line 1, the keyword on line 2 and the
\* EOF token at the end of line 2.
C19_Witness ==
    /\ src = <<"\"", "x", "\n", "y", "\"", "t", "r", "u", "e">>
    /\ Len(toks) = 3
    /\ Returned = {1, 2, 3}
    /\ toks[1].tok.span = xcdn_span_new(0, 1, 1)
    /\ toks[2].tok.span = xcdn_span_new(5, 2, 3)
    /\ toks[3].tok.type = "XCDN_TOK_EOF"
    /\ toks[3].tok.span = xcdn_span_new(9, 2, 7)

\* The text "x(LF)y""\x": a two-line string, a call that fails with
\* INVALID_ESCAPE, one that fails with EOF at the quote left over, and the EOF
\* token returned by the call after the failures.
C19_AfterError ==
    /\ src = <<"\"", "x", "\n", "y", "\"", "\"", "\\", "x", "\"">>
    /\ Len(toks) = 4
    /\ Returned = {1, 4}
    /\ toks[2].err.kind = "XCDN_ERR_INVALID_ESCAPE"
    /\ toks[3].err.kind = "XCDN_ERR_EOF"
    /\ toks[1].tok.span = xcdn_span_new(0, 1, 1)
    /\ toks[4].tok.span = xcdn_span_new(9, 2, 7)

\* 1 plus the number of line feeds among the first k bytes of the text.
LineOf(k) == 1 + Cardinality({j \in 1..k : src[j] = "\n"})

\* 1 plus the number of bytes after the last line feed among the first k bytes
\* of the text (after the start of the text when there is none).
ColOf(k) ==
    1 + Cardinality({j \in 1..k : \A m \in j..k : src[m] # "\n"})

\* C20: a token returned without error carries the span of its first byte:
\* the byte's 0-based index, 1 plus the number of line feeds before it, 1 plus
\* the number of bytes since the last line feed; the cursor satisfies the same
\* relation after every consumed byte.
C20_SpanTracking ==
    /\ pc \in {"lexing", "scanning"} =>
         /\ cursor.line = LineOf(cursor.idx)
         /\ cursor.col = ColOf(cursor.idx)
    /\ \A i \in Returned :
         /\ toks[i].tok.span.offset = TokStart(i).idx
         /\ toks[i].tok.span.line = LineOf(TokStart(i).idx)
         /\ toks[i].tok.span.column = ColOf(TokStart(i).idx)
         /\ toks[i].tok.type # "XCDN_TOK_EOF" =>
              lex_peek(src, TokStart(i)) \notin {" ", "\t", "\r", "\n", NoByte}

\* The text of a two-line block comment followed by a two-line string: the
\* string token starts at offset 9, line 2, column 5 and the cursor ends on
\* line 3.
C20_Witness ==
    /\ pc = "lexing"
    /\ src = <<"/", "*", " ", "a", "\n", "b", " ", "*", "/">>
                \o <<"\"", "x", "\n", "y", "\"">>
    /\ Len(toks) = 1
    /\ toks[1].tok.type = "XCDN_TOK_STRING"
    /\ toks[1].tok.span = xcdn_span_new(9, 2, 5)
    /\ cursor = [idx |-> 14, line |-> 3, col |-> 3]

\* The same text walked byte by byte: the cursor after the line feed of the
\* comment and at the end of the text.
C20_Scanned ==
    /\ pc = "scanning"
    /\ src = <<"/", "*", " ", "a", "\n", "b", " ", "*", "/">>
                \o <<"\"", "x", "\n", "y", "\"">>
    /\ cursor = [idx |-> 5, line |-> 2, col |-> 1]

(* ------------------------------------------------------------------ *)
(* Base64                                                             *)
(* ------------------------------------------------------------------ *)

\* C17: decoding the text that b64_encode produced for a byte sequence with
\* decode_base64 returns that byte sequence, same length and same bytes.
C17_Base64RoundTrip ==
    pc = "decoded" =>
        /\ ~IsNull(dec)
        /\ Len(dec.bytes) = Len(data)
        /\ dec.bytes = data

\* The four bytes 251 255 0 128 were encoded as +/8AgA== and decoded again.
C17_Witness ==
    /\ pc = "decoded"
    /\ data = <<251, 255, 0, 128>>
    /\ out = <<"+", "/", "8", "A", "g", "A", "=", "=">>
    /\ dec.bytes = data

\* The empty sequence and sequences of one, two and three bytes were decoded
\* again.
C17_EmptyDecoded ==
    /\ pc = "decoded"
    /\ data = <<>>
    /\ out = <<>>
    /\ dec.bytes = <<>>
    /\ b64_encode(<<255>>) = <<"/", "w", "=", "=">>
    /\ b64_encode(<<255, 1>>) = <<"/", "w", "E", "=">>
    /\ b64_encode(<<0, 0, 63>>) = <<"A", "A", "A", "/">>

\* The bytes a base64 body may have: the alphabet, the URL-safe '-' and '_',
\* the padding and the three white-space bytes.
B64Skipped == {"=", " ", "\n", "\r"}

B64Accepted == Upper \cup Lower \cup Digit \cup {"+", "/", "-", "_"} \cup B64Skipped

\* The value of a byte of the alphabet: A-Z 0-25, a-z 26-51, 0-9 52-61, '+' and
\* '-' 62, '/' and '_' 63.
SextetOf(c) ==
    IF c \in {"+", "-"} THEN 62
    ELSE IF c \in {"/", "_"} THEN 63
    ELSE IF c \in Digit THEN 52 + DigitVal(c)
    ELSE (CHOOSE k \in 1..52 : b64_chars[k] = c) - 1

\* The bytes that a sequence of 6-bit values carries: byte k is the bits
\* 8(k-1) .. 8k-1 of the concatenation; bits left over at the end are dropped.
BytesOfSextets(s) ==
    [k \in 1..((6 * Len(s)) \div 8) |->
        LET j == (8 * (k - 1)) \div 6 + 1
            off == (8 * (k - 1)) % 6
        IN ((s[j] * 64 + s[j + 1]) \div Pow2(4 - off)) % 256]

\* The body of the literal t, and the body without the skipped bytes.
BodyOf(t) == SubSeq(t, 3, Len(t) - 1)

Significant(body) == SelectSeq(body, LAMBDA c : c \notin B64Skipped)

\* The literal t parsed to Bytes when every byte of its body is in B64Accepted,
\* the bytes being those of the 6-bit values of the body without the skipped
\* bytes, and failed with INVALID_BASE64 otherwise.
AcceptanceRule(t) ==
    IF \A k \in 1..Len(BodyOf(t)) : BodyOf(t)[k] \in B64Accepted
    THEN /\ ~IsNull(doc)
         /\ Len(doc.values) = 1
         /\ doc.values[1].value.type = "XCDN_VAL_BYTES"
         /\ doc.values[1].value.data.bytes =
                BytesOfSextets([k \in 1..Len(Significant(BodyOf(t))) |->
                                   SextetOf(Significant(BodyOf(t))[k])])
    ELSE /\ IsNull(doc)
         /\ err.kind = "XCDN_ERR_INVALID_BASE64"

\* C18: the body of a b"..." literal parses to Bytes iff every byte of it is in
\* A-Za-z0-9+/ or is '-' (62), '_' (63), '=', ' ', LF or CR; '=' and the
\* white-space bytes are skipped, missing padding is tolerated, and any other
\* byte makes the parse fail with INVALID_BASE64.
C18_Base64Acceptance ==
    (pc = "parsed" /\ src \in BodyTexts) => AcceptanceRule(src)

\* The literal b"\A" is rejected by the lexer, with INVALID_ESCAPE at the
\* opening quote, before its body is decoded.
C18_EscapeRejected ==
    /\ pc = "parsed"
    /\ src = <<"b", "\"", "\\", "A", "\"">>
    /\ IsNull(doc)
    /\ err.kind = "XCDN_ERR_INVALID_ESCAPE"
    /\ err.span.offset = 1

\* The literals with no backslash in the body follow the rule.
C18_WithoutBackslash ==
    (pc = "parsed" /\ src \in BodyTexts /\ ~Contains(BodyOf(src), {"\\"})) =>
        AcceptanceRule(src)

\* The literal b"-_8": the URL-safe bytes and no padding, parsed to the bytes
\* 251 255.
C18_UrlSafeAccepted ==
    /\ pc = "parsed"
    /\ src = <<"b", "\"", "-", "_", "8", "\"">>
    /\ ~IsNull(doc)
    /\ doc.values[1].value.type = "XCDN_VAL_BYTES"
    /\ doc.values[1].value.data.bytes = <<251, 255>>

\* The literal b"Q=Q": a padding byte inside the body is skipped.
C18_PaddingInside ==
    /\ pc = "parsed"
    /\ src = <<"b", "\"", "Q", "=", "Q", "\"">>
    /\ ~IsNull(doc)
    /\ doc.values[1].value.data.bytes = <<65>>

\* The literal b"A(TAB)Q" is rejected: a tab is not skipped.
C18_TabRejected ==
    /\ pc = "parsed"
    /\ src = <<"b", "\"", "A", "\t", "Q", "\"">>
    /\ IsNull(doc)
    /\ err.kind = "XCDN_ERR_INVALID_BASE64"

(* ------------------------------------------------------------------ *)
(* Path lookup                                                        *)
(* ------------------------------------------------------------------ *)

\* The node under the key seg of the value val: NULL when val is no Object or
\* has no such key.
Member(val, seg) ==
    IF IsNull(val) \/ val.type # "XCDN_VAL_OBJECT" THEN NULL
    ELSE IF \E k \in 1..Len(val.data) : val.data[k].key.s = seg
    THEN val.data[CHOOSE k \in 1..Len(val.data) : val.data[k].key.s = seg].node
    ELSE NULL

RECURSIVE Descend(_, _, _)
\* The node reached from the value val by the segments i, i + 1, ... of segs.
Descend(val, segs, i) ==
    IF IsNull(Member(val, segs[i])) \/ i = Len(segs) THEN Member(val, segs[i])
    ELSE Descend(Member(val, segs[i]).value, segs, i + 1)

\* The segment sequences whose dotted form is the path looked up last.
SegmentsOfLast ==
    {segs \in UNION {[1..n -> Segments] : n \in 1..MaxSegments} :
        Dotted(segs, 1) = last.key}

\* C21: xcdn_get_path with k >= 1 non-empty segments returns the node reached
\* by looking up the first segment in the first top-level value and each next
\* segment in the value of the node found so far; NULL when the document has
\* no values, a segment is missing or the value to look in is no Object.
C21_GetPath ==
    (pc = "looked" /\ last.op = "get_path") =>
        \A segs \in SegmentsOfLast :
            last.arg = IF IsNull(doc) \/ Len(doc.values) = 0 THEN NULL
                       ELSE Descend(doc.values[1].value, segs, 1)

\* The path a.b.c in {a:{b:{c:1} c:2} b:3} gave the node of the Int 1.
C21_Witness ==
    /\ pc = "looked"
    /\ src = <<"{", "a", ":", "{", "b", ":", "{", "c", ":", "1", "}", " ", "c", ":",
               "2", "}", " ", "b", ":", "3", "}">>
    /\ last.key = <<"a", ".", "b", ".", "c">>
    /\ ~IsNull(last.arg)
    /\ last.arg.value.type = "XCDN_VAL_INT"
    /\ last.arg.value.data = [neg |-> FALSE, mag |-> <<"1">>]

\* The path b.a in the same text continues past the scalar 3: NULL.
C21_PastScalar ==
    /\ pc = "looked"
    /\ src = <<"{", "a", ":", "{", "b", ":", "{", "c", ":", "1", "}", " ", "c", ":",
               "2", "}", " ", "b", ":", "3", "}">>
    /\ last.key = <<"b", ".", "a">>
    /\ IsNull(last.arg)
    /\ ~IsNull(Member(doc.values[1].value, <<"b">>))

\* The path a.b in {a:1}{a:{b:2}} is looked up in the first value only: NULL.
C21_FirstValueOnly ==
    /\ pc = "looked"
    /\ src = <<"{", "a", ":", "1", "}", "{", "a", ":", "{", "b", ":", "2", "}", "}">>
    /\ Len(doc.values) = 2
    /\ last.key = <<"a", ".", "b">>
    /\ IsNull(last.arg)

(* ------------------------------------------------------------------ *)
(* Layout                                                             *)
(* ------------------------------------------------------------------ *)

\* The document parsed from a layout text has been printed with a format.
Printed == pc = "printed" /\ src \in FormatTexts

\* The number of brackets and braces open after the first k bytes of out.
Depth(k) ==
    Cardinality({j \in 1..k : out[j] \in {"{", "["}})
        - Cardinality({j \in 1..k : out[j] \in {"}", "]"}})

\* The index of the last byte of out before index k that is no space and no
\* line feed (the texts are such that k is not the first byte).
LastInk(k) ==
    CHOOSE j \in 1..(k - 1) :
        /\ out[j] \notin {" ", "\n"}
        /\ \A m \in (j + 1)..(k - 1) : out[m] \in {" ", "\n"}

\* The line feeds of out outside every bracket that end a line with something
\* on it, and the first of them, one for each directive: the ends of the
\* directives.
LineEnds ==
    {k \in 2..Len(out) : out[k] = "\n" /\ Depth(k) = 0 /\ out[k - 1] # "\n"}

DirectiveEnds ==
    {k \in LineEnds : Cardinality({j \in LineEnds : j < k}) < Len(doc.prolog)}

C22_PrettyWithout ==
    /\ Printed
    /\ fmt = [pretty |-> TRUE, indent |-> 2, trailing_commas |-> FALSE]
    /\ Len(doc.prolog) = 2
    /\ out = <<"$", "v", ":", " ", "1", "\n", "\n">>
               \o <<"$", "w", ":", " ", "[", "\n", " ", " ", "1", ",", "\n">>
               \o <<" ", " ", "2", "\n", "]", "\n">>
               \o <<"{", "\n", " ", " ", "a", ":", " ", "1", "\n", "}">>

\* The number of parentheses open after the first k bytes of out.
ParenDepth(k) ==
    Cardinality({j \in 1..k : out[j] = "("}) - Cardinality({j \in 1..k : out[j] = ")"})

\* The commas of out written by an object or an array: inside a bracket and
\* outside every argument list.
EntryCommas ==
    {k \in 1..Len(out) : out[k] = "," /\ Depth(k) >= 1 /\ ParenDepth(k) = 0}

\* C23: when format.pretty is false, consecutive entries of an object or array
\* are separated by exactly the two characters comma, space, and no comma
\* follows the last entry unless trailing_commas is set.
C23_CommaSpace ==
    (Printed /\ ~fmt.pretty) =>
        \A k \in EntryCommas :
            IF out[k + 1] \in {"}", "]"} THEN fmt.trailing_commas
            ELSE out[k + 1] = " " /\ out[k + 2] # " "

\* What the code writes between two entries in that layout: the comma alone,
\* the next entry right after it.
C23_CommaAlone ==
    (Printed /\ ~fmt.pretty) =>
        \A k \in EntryCommas :
            IF out[k + 1] \in {"}", "]"} THEN fmt.trailing_commas
            ELSE out[k + 1] \notin {" ", "\n"}

\* The array [1 2 3] printed in the compact format.
C23_Witness ==
    /\ Printed
    /\ fmt = xcdn_format_compact
    /\ out = <<"[", "1", ",", "2", ",", "3", "]">>

\* A document has been printed by xcdn_to_string_compact.
PrintedCompact == pc = "printed" /\ fmt = xcdn_format_compact

\* C24: the output of xcdn_to_string_compact contains no newline character,
\* for every parsed document, with or without directives, whatever its strings
\* and typed literals contain.
C24_CompactNoNewline ==
    PrintedCompact => \A k \in 1..Len(out) : out[k] # "\n"

\* The compact output of $v:1 a:1 has a line feed after the directive.
C24_AfterDirective ==
    /\ PrintedCompact
    /\ src = <<"$", "v", ":", "1", " ", "a", ":", "1">>
    /\ out = <<"$", "v", ":", " ", "1", "\n", "{", "a", ":", " ", "1", "}">>

\* The compact output of a decimal with a line feed inside carries the line
\* feed; the one of a triple-quoted string carries the escape instead.
C24_InsideDecimal ==
    /\ PrintedCompact
    /\ src = <<"d", "\"", "1", "\n", "2", "\"">>
    /\ out = src

C24_InsideString ==
    /\ PrintedCompact
    /\ src = <<"\"", "\"", "\"", "a", "\n", "b", "\"", "\"", "\"">>
    /\ out = <<"\"", "a", "\\", "n", "b", "\"">>

(* ------------------------------------------------------------------ *)
(* Empty documents                                                    *)
(* ------------------------------------------------------------------ *)

\* The first call of the lexer on the source text.
FirstToken == xcdn_lexer_next(src, xcdn_lexer_init, heap_init)

\* C25: the empty text and a text made only of whitespace (space, tab, CR, LF),
\* line comments and block comments parse to a Document with no directive and
\* no value; the lexer returns EOF for such a text and raises no error.
C25_EmptyDocument ==
    (pc = "parsed" /\ src \in BlankTexts) =>
        /\ ~IsNull(doc)
        /\ Len(doc.prolog) = 0
        /\ Len(doc.values) = 0
        /\ ~xcdn_error_is_set(err)
        /\ raised = <<>>
        /\ FirstToken.tok.type = "XCDN_TOK_EOF"
        /\ ~xcdn_error_is_set(FirstToken.err)
        /\ FirstToken.lex.idx = Len(src)

\* A carriage return and a line comment ended by the end of the text have
\* been parsed.
C25_Witness ==
    /\ pc = "parsed"
    /\ src = <<"\r", "/", "/">>
    /\ ~IsNull(doc)

\* The empty text has been parsed.
C25_EmptyText ==
    /\ pc = "parsed"
    /\ src = <<>>
    /\ ~IsNull(doc)
    /\ Len(doc.values) = 0

(* ------------------------------------------------------------------ *)
(* Object keys                                                        *)
(* ------------------------------------------------------------------ *)

\* The keys of the Object that is the first value of document d, in order.
KeysOf(d) ==
    IF IsNull(d) \/ Len(d.values) = 0 THEN <<>>
    ELSE IF d.values[1].value.type # "XCDN_VAL_OBJECT" THEN <<>>
    ELSE [i \in 1..Len(d.values[1].value.data) |-> d.values[1].value.data[i].key]

\* The serializer writes the key k without quotes.
Unquoted(k) == write_key(k) = k.s

\* The token the lexer reads at the start of the text of key k followed by
\* the colon the serializer writes after it.
KeyToken(k) == xcdn_lexer_next(k.s \o <<":", " ">>, xcdn_lexer_init, heap_init)

\* C26: every object key that the serializer emits unquoted lexes back as one
\* IDENT token whose text is that key, so the serialization of a parsed
\* Object, whatever the form of its source keys, parses again with the same
\* keys.
C26_UnquotedKeys ==
    /\ (pc = "printed" /\ src \in KeyTexts) =>
           \A i \in 1..Len(KeysOf(doc)) :
               Unquoted(KeysOf(doc)[i]) =>
                   /\ KeyToken(KeysOf(doc)[i]).tok.type = "XCDN_TOK_IDENT"
                   /\ KeyToken(KeysOf(doc)[i]).tok.str.s = KeysOf(doc)[i].s
    /\ (pc = "reparsed" /\ src \in KeyTexts) =>
           /\ ~IsNull(doc2)
           /\ Len(KeysOf(doc2)) = Len(KeysOf(doc))
           /\ \A i \in 1..Len(KeysOf(doc)) : KeysOf(doc2)[i].s = KeysOf(doc)[i].s

\* The same for the objects with no keyword among their keys.
C26_NoKeyword ==
    LET Keywords == {KeywordText("XCDN_TOK_TRUE"), KeywordText("XCDN_TOK_FALSE"),
                     KeywordText("XCDN_TOK_NULL")}
    IN (\A i \in 1..Len(KeysOf(doc)) : KeysOf(doc)[i].s \notin Keywords) =>
           C26_UnquotedKeys

\* The object {"true":1} was printed with the key unquoted and the output is
\* rejected.
C26_KeywordKey ==
    /\ pc = "reparsed"
    /\ src = <<"{", "\"", "t", "r", "u", "e", "\"", ":", "1", "}">>
    /\ fmt = xcdn_format_compact
    /\ out = <<"{", "t", "r", "u", "e", ":", " ", "1", "}">>
    /\ IsNull(doc2)
    /\ err2.kind = "XCDN_ERR_EXPECTED"

\* Keys with a space, a leading digit and the empty key are quoted and come
\* back.
C26_QuotedKeys ==
    /\ pc = "reparsed"
    /\ src = <<"{", "\"", "x", "1", "\"", ":", "1", " ", "\"", "1", "x", "\"", ":", "2", "}">>
    /\ fmt = xcdn_format_compact
    /\ out = <<"{", "x", "1", ":", " ", "1", ",", "\"", "1", "x", "\"", ":", " ", "2", "}">>
    /\ ~IsNull(doc2)

(* ------------------------------------------------------------------ *)
(* Failed parses                                                      *)
(* ------------------------------------------------------------------ *)

\* xcdn_parse_str has returned NULL.
ParseFailed == pc = "parsed" /\ IsNull(doc)

\* C27: when xcdn_parse_str fails, nothing allocated during the parse stays
\* allocated: the partial Document, every partial Node and Value, every key
\* string and every token payload, a token buffered in the lookahead slot
\* included, are released exactly once before the function returns.
C27_NothingLeftAllocated ==
    ParseFailed => heap.live = {} /\ heap.bad = 0

\* The same without the blocks left: nothing is released twice.
C27_NoDoubleFree ==
    ParseFailed => heap.bad = 0

\* The text a "s" was rejected at the string, and one block stays allocated.
C27_LookaheadLeaked ==
    /\ ParseFailed
    /\ src = <<"a", " ", "\"", "s", "\"">>
    /\ err.kind = "XCDN_ERR_EXPECTED"
    /\ Cardinality(heap.live) = 1

\* The text {a:"s" b} was rejected inside the object and nothing stays
\* allocated.
C27_ReleasedInObject ==
    /\ ParseFailed
    /\ src = <<"{", "a", ":", "\"", "s", "\"", " ", "b", "}">>
    /\ heap.live = {}

(* ------------------------------------------------------------------ *)
(* Floats                                                             *)
(* ------------------------------------------------------------------ *)

\* The document parsed from a float text holds one Float.
OneFloat ==
    /\ src \in FloatTexts
    /\ ~IsNull(doc)
    /\ Len(doc.values) = 1
    /\ doc.values[1].value.type = "XCDN_VAL_FLOAT"

\* C28: for every finite Float the text the serializer emits contains '.', 'e'
\* or 'E', so it lexes as a FLOAT token and the value parses again as a Float,
\* never as an Int.
C28_FloatStaysFloat ==
    /\ (pc = "printed" /\ OneFloat) =>
           \E k \in 1..Len(out) : out[k] \in {".", "e", "E"}
    /\ (pc = "reparsed" /\ OneFloat) =>
           /\ ~IsNull(doc2)
           /\ Len(doc2.values) = 1
           /\ doc2.values[1].value.type = "XCDN_VAL_FLOAT"

\* The Float of the text 1.0 was printed as 1 and came back as an Int.
C28_WholeBecomesInt ==
    /\ pc = "reparsed"
    /\ OneFloat
    /\ src = <<"1", ".", "0">>
    /\ out = <<"1">>
    /\ ~IsNull(doc2)
    /\ doc2.values[1].value.type = "XCDN_VAL_INT"

\* The Float of the text 2.5 was printed as 2.5 and came back as a Float.
C28_FractionStays ==
    /\ pc = "reparsed"
    /\ OneFloat
    /\ src = <<"2", ".", "5">>
    /\ out = src
    /\ ~IsNull(doc2)
    /\ doc2.values[1].value.type = "XCDN_VAL_FLOAT"

(* ------------------------------------------------------------------ *)
(* Separators of entries                                              *)
(* ------------------------------------------------------------------ *)

\* The parse of the two entries separated by s1 and followed by s2 has
\* returned.
ParsedSep(s1, s2, braced) == pc = "parsed" /\ src = SepText(s1, s2, braced)

\* The document holds the Object with the keys a and b and nothing else.
TwoEntries ==
    /\ ~IsNull(doc)
    /\ Len(doc.prolog) = 0
    /\ Len(doc.values) = 1
    /\ Len(KeysOf(doc)) = 2
    /\ KeysOf(doc)[1].s = <<"a">>
    /\ KeysOf(doc)[2].s = <<"b">>

\* C29: the root implicit object and an explicit {...} object accept the same
\* separators: zero or one comma between two entries and at most one comma
\* after the last; two or more commas in a row are rejected with EXPECTED in
\* both forms.
C29_SameSeparators ==
    \A s1 \in Seps, s2 \in Seps, braced \in BOOLEAN :
        ParsedSep(s1, s2, braced) =>
            IF Len(s1) <= 1 /\ Len(s2) <= 1 THEN TwoEntries
            ELSE IsNull(doc) /\ err.kind = "XCDN_ERR_EXPECTED"

\* The same for the explicit object alone.
C29_Braced ==
    \A s1 \in Seps, s2 \in Seps :
        ParsedSep(s1, s2, TRUE) =>
            IF Len(s1) <= 1 /\ Len(s2) <= 1 THEN TwoEntries
            ELSE IsNull(doc) /\ err.kind = "XCDN_ERR_EXPECTED"

\* At the root every run of commas is taken.
C29_Root ==
    \A s1 \in Seps, s2 \in Seps : ParsedSep(s1, s2, FALSE) => TwoEntries

\* The text a:1,, b:2 was accepted.
C29_RootTwoCommas ==
    /\ ParsedSep(<<",", ",">>, <<>>, FALSE)
    /\ TwoEntries

\* The text {a:1,, b:2} was rejected at the second comma.
C29_BracedTwoCommas ==
    /\ ParsedSep(<<",", ",">>, <<>>, TRUE)
    /\ IsNull(doc)
    /\ err.kind = "XCDN_ERR_EXPECTED"
    /\ err.span.offset = 5

(* ------------------------------------------------------------------ *)
(* Termination                                                        *)
(* ------------------------------------------------------------------ *)

\* The calls of xcdn_lexer_next made by the parse of the source text, in
\* order.
LexerCalls == xcdn_parse_str(src, heap_init).p.calls

\* C30: xcdn_parse_str terminates on every finite input: every call of the
\* lexer consumes at least one byte or returns the EOF token (the end of the
\* text, or an error), the lexer index never exceeds the length of the input,
\* and no loop of the parser goes on after the EOF token, be it buffered in
\* the lookahead slot with the error set or the real end inside an unclosed
\* object, array or argument list: it is the last call, so the parse makes at
\* most one call more than the input has bytes.
C30_Termination ==
    (pc = "parsed" /\ ops = 0) =>
        /\ \A i \in 1..Len(LexerCalls) :
             /\ LexerCalls[i].from <= LexerCalls[i].to
             /\ LexerCalls[i].to <= Len(src)
             /\ LexerCalls[i].to > LexerCalls[i].from
                    \/ LexerCalls[i].type = "XCDN_TOK_EOF"
             /\ LexerCalls[i].failed => LexerCalls[i].type = "XCDN_TOK_EOF"
             /\ i < Len(LexerCalls) =>
                    /\ LexerCalls[i].type # "XCDN_TOK_EOF"
                    /\ LexerCalls[i + 1].from = LexerCalls[i].to
        /\ Len(LexerCalls) >= 1
        /\ LexerCalls[1].from = 0
        /\ Len(LexerCalls) <= Len(src) + 1
        /\ IsNull(doc) <=> xcdn_error_is_set(err)

\* The text [1 ? has been parsed: the third call failed at the byte ? and its
\* token, of type EOF, ended the loop of the array.
C30_Witness ==
    /\ pc = "parsed" /\ ops = 0
    /\ src = <<"[", "1", " ", "?">>
    /\ Len(LexerCalls) = 3
    /\ LexerCalls[3].failed
    /\ IsNull(doc)

\* The text {a:2 has been parsed: the end of the text inside the object.
C30_UnclosedObject ==
    /\ pc = "parsed" /\ ops = 0
    /\ src = <<"{", "a", ":", "2", " ">>
    /\ Len(LexerCalls) = 5
    /\ LexerCalls[5].type = "XCDN_TOK_EOF" /\ ~LexerCalls[5].failed
    /\ LexerCalls[5].to = Len(src)
    /\ IsNull(doc)

\* The text @m( has been parsed: the end of the text inside the argument
\* list.
C30_UnclosedArguments ==
    /\ pc = "parsed" /\ ops = 0
    /\ src = <<"@", "m", "(">>
    /\ LexerCalls[Len(LexerCalls)].type = "XCDN_TOK_EOF"
    /\ ~LexerCalls[Len(LexerCalls)].failed
    /\ IsNull(doc)

\* The text "ab has been parsed: the string is not closed and the index stays
\* at the end of the text.
C30_UnclosedString ==
    /\ pc = "parsed" /\ ops = 0
    /\ src = <<"\"", "a", "b">>
    /\ Len(LexerCalls) = 1
    /\ LexerCalls[1].failed
    /\ LexerCalls[1].to = Len(src)

====
